---- MODULE Spec2Model ----
(***************************************************************************)
(* A model of the query/rule subsystem of the Solana static analyzer:      *)
(* the rule engine (registration, filtering, execution), the analyzer's    *)
(* batch loop over files, the built-in rule catalogue with its query       *)
(* filters over a syntactic model of the parsed file, and the query        *)
(* combinators.                                                            *)
(*                                                                         *)
(* Text (identifiers, attribute token text) is a sequence of one-character *)
(* strings so that the substring tests of the filters are computed.        *)
(***************************************************************************)
EXTENDS Integers, Sequences, FiniteSets, TLC

VARIABLES
    ctor,     \* how the engine was constructed
    config,   \* RuleEngine.config (and Analyzer.options, which it is copied from)
    rules,    \* RuleEngine.rules, in registration order
    offered,  \* every rule handed to add_rule so far, in call order
    last,     \* the last operation run and what it returned
    qa,       \* a query (its results)
    qb,       \* a second query (its results)
    qr,       \* the last combinator applied to qa (and qb) and its result
    call,     \* the arguments of a call of the span mapper or of the query engine
    ret,      \* the call made on them and what it returned
    builder   \* a RuleBuilder, the calls made on it and the rule it built

vars == <<ctor, config, rules, offered, last, qa, qb, qr, call, ret, builder>>

\* ------------------------------------------------------------------ bounds

MaxAdds == 2
MaxLoads == 1
MaxQueryLen == 2
MaxLine == 3
MaxColumn == 4
MaxContext == 2

\* ------------------------------------------------------------ sequences

RECURSIVE Flatten(_)
Flatten(ss) == IF ss = <<>> THEN <<>> ELSE Head(ss) \o Flatten(Tail(ss))

Range(s) == {s[i] : i \in 1..Len(s)}

SeqsUpTo(S, n) == UNION {[1..k -> S] : k \in 0..n}

\* ----------------------------------------------------------------- text

\* str::contains: sub occurs in s as a contiguous run of characters
Contains(s, sub) ==
    \E i \in 0..(Len(s) - Len(sub)) :
        \A j \in 1..Len(sub) : s[i + j] = sub[j]

\* Words of the source text and of the analysed files, as character sequences
S_derive == <<"d", "e", "r", "i", "v", "e">>
S_Accounts == <<"A", "c", "c", "o", "u", "n", "t", "s">>
S_account == <<"a", "c", "c", "o", "u", "n", "t">>
S_mut == <<"m", "u", "t">>
S_constraint == <<"c", "o", "n", "s", "t", "r", "a", "i", "n", "t">>
S_seeds == <<"s", "e", "e", "d", "s">>
S_bump == <<"b", "u", "m", "p">>
S_ne == <<"!", "=">>
S_key_call == <<"k", "e", "y", "(", ")">>
S_owner == <<"o", "w", "n", "e", "r">>
S_address == <<"a", "d", "d", "r", "e", "s", "s">>
S_signer == <<"s", "i", "g", "n", "e", "r">>
S_Context == <<"C", "o", "n", "t", "e", "x", "t">>
S_Result == <<"R", "e", "s", "u", "l", "t">>
S_AccountInfo == <<"A", "c", "c", "o", "u", "n", "t", "I", "n", "f", "o">>
S_UncheckedAccount == <<"U", "n", "c", "h", "e", "c", "k", "e", "d", "A", "c", "c", "o", "u", "n", "t">>
S_SystemAccount == <<"S", "y", "s", "t", "e", "m", "A", "c", "c", "o", "u", "n", "t">>
S_Account == <<"A", "c", "c", "o", "u", "n", "t">>
S_AccountLoader == <<"A", "c", "c", "o", "u", "n", "t", "L", "o", "a", "d", "e", "r">>
S_Signer == <<"S", "i", "g", "n", "e", "r">>
S_Program == <<"P", "r", "o", "g", "r", "a", "m">>
S_Sysvar == <<"S", "y", "s", "v", "a", "r">>
S_d0 == <<"0">>
S_d0p0 == <<"0", ".", "0">>
S_d1 == <<"1">>
S_d2 == <<"2">>
S_d5 == <<"5">>
S_Ctx == <<"C", "t", "x">>
S_authority == <<"a", "u", "t", "h", "o", "r", "i", "t", "y">>
S_handler == <<"h", "a", "n", "d", "l", "e", "r">>
S_x == <<"x">>
S_y == <<"y">>
S_z == <<"z">>
S_ctx == <<"c", "t", "x">>
S_info == <<"'", "i", "n", "f", "o">>
S_comma == <<",">>
S_eq == <<"=">>
S_dot == <<".">>
S_parens == <<"(", ")">>
S_key == <<"k", "e", "y">>
S_sp == <<" ">>
S_Transfer == <<"T", "r", "a", "n", "s", "f", "e", "r">>
S_from == <<"f", "r", "o", "m">>
S_to == <<"t", "o">>
S_vault == <<"v", "a", "u", "l", "t">>
S_TokenAccount == <<"T", "o", "k", "e", "n", "A", "c", "c", "o", "u", "n", "t">>
S_token_program == <<"t", "o", "k", "e", "n", "_", "p", "r", "o", "g", "r", "a", "m">>
S_Token == <<"T", "o", "k", "e", "n">>
S_raw == <<"r", "a", "w">>
S_helper == <<"h", "e", "l", "p", "e", "r">>
S_inner == <<"i", "n", "n", "e", "r">>
S_nested == <<"n", "e", "s", "t", "e", "d">>
S_amount == <<"a", "m", "o", "u", "n", "t">>
S_u64 == <<"u", "6", "4">>
S_unit == <<"(", ")">>
S_run == <<"r", "u", "n">>
S_Pool == <<"P", "o", "o", "l">>
S_Debug == <<"D", "e", "b", "u", "g">>
S_Clone == <<"C", "l", "o", "n", "e">>
S_total == <<"t", "o", "t", "a", "l">>
S_parts == <<"p", "a", "r", "t", "s">>
S_scan == <<"s", "c", "a", "n">>
S_len == <<"l", "e", "n">>

\* proc_macro2's TokenStream::to_string: the tokens separated by one space
RECURSIVE TokensToString(_)
TokensToString(tokens) ==
    IF tokens = <<>> THEN <<>>
    ELSE IF Len(tokens) = 1 THEN tokens[1]
    ELSE tokens[1] \o S_sp \o TokensToString(Tail(tokens))

\* ------------------------------------------------------ the parsed file

\* Option<T> is a sequence of length 0 (None) or 1 (Some)
None == <<>>
Some(v) == <<v>>

\* syn::Attribute: #[path(tokens)] when list, #[path] otherwise
Attr(path, tokens) == [path |-> path, list |-> TRUE, tokens |-> tokens]
AttrPath(path) == [path |-> path, list |-> FALSE, tokens |-> <<>>]

\* syn::Type of the shape Head<args>
Ty(head, args) == [head |-> head, args |-> args]

\* syn::Field of a struct with named fields
Field(ident, attrs, ty) == [ident |-> ident, attrs |-> attrs, ty |-> ty]

\* syn::Expr, one record shape for every variant
Expr(k, ident, digits, op, args, stmts) ==
    [k |-> k, ident |-> ident, digits |-> digits, op |-> op, args |-> args, stmts |-> stmts]
LitInt(digits) == Expr("lit_int", <<>>, digits, "", <<>>, <<>>)
LitFloat(digits) == Expr("lit_float", <<>>, digits, "", <<>>, <<>>)
PathExpr(ident) == Expr("path", ident, <<>>, "", <<>>, <<>>)
Binary(op, l, r) == Expr("binary", <<>>, <<>>, op, <<l, r>>, <<>>)
Call(f, args) == Expr("call", <<>>, <<>>, "", <<f>> \o args, <<>>)
FieldExpr(base, member) == Expr("field", member, <<>>, "", <<base>>, <<>>)
MethodCall(recv, method) == Expr("method_call", method, <<>>, "", <<recv>>, <<>>)
Paren(e) == Expr("paren", <<>>, <<>>, "", <<e>>, <<>>)
Cast(e) == Expr("cast", <<>>, <<>>, "", <<e>>, <<>>)
UnsafeBlock(stmts) == Expr("unsafe", <<>>, <<>>, "", <<>>, stmts)
BlockExpr(stmts) == Expr("block", <<>>, <<>>, "", <<>>, stmts)

\* syn::Stmt: a let binding (pattern an identifier or the wildcard) or an expression
Local(pat, ident, init) == [k |-> "local", pat |-> pat, ident |-> ident, init |-> init]
LetIdent(ident, e) == Local("ident", ident, Some(e))
LetWild(e) == Local("wild", <<>>, Some(e))
\* let ident: u64 = e, whose pattern is a Pat::Type around the identifier
LetTyped(ident, e) == Local("typed", ident, Some(e))
StmtExpr(e) == [k |-> "expr", pat |-> "", ident |-> <<>>, init |-> Some(e)]

\* syn::Item, one record shape for every variant; span is (start line, start
\* column, end line, end column)
Item(kind, ident, vis, unsafety, attrs, fields, inputs, output, block, inline, items, span) ==
    [kind |-> kind, ident |-> ident, vis |-> vis, unsafety |-> unsafety, attrs |-> attrs,
     fields |-> fields, inputs |-> inputs, output |-> output, block |-> block,
     inline |-> inline, items |-> items, span |-> span]
ItemStruct(ident, attrs, fields, span) ==
    Item("struct", ident, "pub", FALSE, attrs, fields, <<>>, None, <<>>, FALSE, <<>>, span)
ItemFn(ident, vis, unsafety, inputs, output, block, span) ==
    Item("fn", ident, vis, unsafety, <<>>, <<>>, inputs, output, block, FALSE, <<>>, span)
ImplItemFn(ident, vis, unsafety, inputs, output, block, span) ==
    Item("impl_fn", ident, vis, unsafety, <<>>, <<>>, inputs, output, block, FALSE, <<>>, span)
\* syn::ImplItem::Const, an item of an impl block that is not a function
ImplItemConst(ident, span) ==
    Item("impl_const", ident, "inherited", FALSE, <<>>, <<>>, <<>>, None, <<>>, FALSE, <<>>, span)
ItemMod(ident, inline, items, span) ==
    Item("mod", ident, "inherited", FALSE, <<>>, <<>>, <<>>, None, <<>>, inline, items, span)
ItemImpl(items, span) ==
    Item("impl", <<>>, "inherited", FALSE, <<>>, <<>>, <<>>, None, <<>>, FALSE, items, span)

\* ------------------------------------------------------ analysed files

\* #[derive(Accounts)] pub struct Ctx<'info> { pub authority: AccountInfo<'info> }
E2E_Ctx ==
    ItemStruct(S_Ctx, <<Attr(S_derive, <<S_Accounts>>)>>,
               <<Field(S_authority, <<>>, Ty(S_AccountInfo, <<S_info>>))>>,
               <<1, 0, 4, 1>>)

\* pub fn handler(ctx: Context<Ctx>) { let x = 1; let y = 0; let _ = x / y; }
E2E_handler ==
    ItemFn(S_handler, "pub", FALSE, <<Ty(S_Context, <<S_Ctx>>)>>, None,
           <<LetIdent(S_x, LitInt(S_d1)),
             LetIdent(S_y, LitInt(S_d0)),
             LetWild(Binary("Div", PathExpr(S_x), PathExpr(S_y)))>>,
           <<6, 0, 10, 1>>)

E2E_File == <<E2E_Ctx, E2E_handler>>

\* #[derive(Accounts)] pub struct Transfer<'info> {
\*     #[account(mut)] pub from: Account<'info, TokenAccount>,
\*     #[account(mut)] pub to: Account<'info, TokenAccount>,
\*     #[account(signer)] pub authority: AccountInfo<'info>,
\*     #[account(address = token_program)] pub token_program: Program<'info, Token>,
\* }
Lib_Transfer ==
    ItemStruct(S_Transfer, <<Attr(S_derive, <<S_Accounts>>)>>,
               <<Field(S_from, <<Attr(S_account, <<S_mut>>)>>,
                       Ty(S_Account, <<S_info, S_TokenAccount>>)),
                 Field(S_to, <<Attr(S_account, <<S_mut>>)>>,
                       Ty(S_Account, <<S_info, S_TokenAccount>>)),
                 Field(S_authority, <<Attr(S_account, <<S_signer>>)>>,
                       Ty(S_AccountInfo, <<S_info>>)),
                 Field(S_token_program,
                       <<Attr(S_account, <<S_address, S_eq, S_token_program>>)>>,
                       Ty(S_Program, <<S_info, S_Token>>))>>,
               <<1, 0, 11, 1>>)

\* #[derive(Debug, Clone)] pub struct Pool { pub total: u64 }
Lib_Pool ==
    ItemStruct(S_Pool, <<Attr(S_derive, <<S_Debug, S_comma, S_Clone>>)>>,
               <<Field(S_total, <<>>, Ty(S_u64, <<>>))>>,
               <<13, 0, 15, 1>>)

\* pub unsafe fn raw(amount: u64) -> Result<()> { let z = 5; let _ = amount / z; }
Lib_raw ==
    ItemFn(S_raw, "pub", TRUE, <<Ty(S_u64, <<>>)>>, Some(Ty(S_Result, <<S_unit>>)),
           <<LetIdent(S_z, LitInt(S_d5)),
             LetWild(Binary("Div", PathExpr(S_amount), PathExpr(S_z)))>>,
           <<17, 0, 20, 1>>)

\* fn helper(amount: u64) -> u64 { unsafe { scan(amount) } }
Lib_helper ==
    ItemFn(S_helper, "inherited", FALSE, <<Ty(S_u64, <<>>)>>, Some(Ty(S_u64, <<>>)),
           <<StmtExpr(UnsafeBlock(<<StmtExpr(Call(PathExpr(S_scan), <<PathExpr(S_amount)>>))>>))>>,
           <<22, 0, 24, 1>>)

\* pub fn nested(ctx: Context<Transfer>, parts: u64) -> Result<()> { let _ = total / parts.len(); }
Lib_nested ==
    ItemFn(S_nested, "pub", FALSE, <<Ty(S_Context, <<S_Transfer>>), Ty(S_u64, <<>>)>>,
           Some(Ty(S_Result, <<S_unit>>)),
           <<LetWild(Binary("Div", PathExpr(S_total), MethodCall(PathExpr(S_parts), S_len)))>>,
           <<27, 4, 29, 5>>)

\* mod inner { pub fn nested(...) ... }
Lib_inner == ItemMod(S_inner, TRUE, <<Lib_nested>>, <<26, 0, 30, 1>>)

\* impl Pool { pub fn run(amount: u64) { let _ = amount / 2; } }
Lib_run ==
    ImplItemFn(S_run, "pub", FALSE, <<Ty(S_u64, <<>>)>>, None,
               <<LetWild(Binary("Div", PathExpr(S_amount), LitInt(S_d2)))>>,
               <<33, 4, 35, 5>>)

Lib_impl == ItemImpl(<<Lib_run>>, <<32, 0, 36, 1>>)

Lib_File == <<Lib_Transfer, Lib_Pool, Lib_raw, Lib_helper, Lib_inner, Lib_impl>>

\* a file that was parsed and then became unreadable: fn helper, as in lib.rs
Gone_File == <<Lib_helper>>

\* unsafe fn éééééé() {} on one line: the name has six two-byte characters
S_accent == <<"é", "é", "é", "é", "é", "é">>
Accent_fn == ItemFn(S_accent, "inherited", TRUE, <<>>, None, <<>>, <<1, 0, 1, 21>>)
Accent_File == <<Accent_fn>>

\* The input files: (path, AST) pairs named by their paths
FilePaths == {"e2e.rs", "lib.rs", "gone.rs"}

\* the files a single rule is checked on
ParsedPaths == FilePaths \cup {"accent.rs"}

Ast(path) ==
    CASE path = "e2e.rs" -> E2E_File
      [] path = "lib.rs" -> Lib_File
      [] path = "accent.rs" -> Accent_File
      [] OTHER -> Gone_File

\* whether std::fs::read_to_string(path) succeeds
Readable(path) == path # "gone.rs"

\* ---------------------------------------------------------- node model

\* AstNode { node_type, data, name }: data is the NodeData variant and the
\* subtree it refers to
AstNode(node_type, variant, data, name) ==
    [node_type |-> node_type, variant |-> variant, data |-> data, name |-> name]

from_file(file) == AstNode("File", "File", file, None)
from_function(func) == AstNode("Function", "Function", func, Some(func.ident))
from_impl_function(func) == AstNode("Function", "ImplFunction", func, Some(func.ident))
from_struct(struct_item) == AstNode("Struct", "Struct", struct_item, Some(struct_item.ident))

\* ---------------------------------------------------------- query engine

\* AstQuery::new: the single File node
new(ast) == <<from_file(ast)>>

RECURSIVE extract_functions_recursive(_)
extract_functions_recursive(items) ==
    IF items = <<>> THEN <<>>
    ELSE LET item == Head(items)
             here == CASE item.kind = "fn" -> <<from_function(item)>>
                       [] item.kind = "mod" ->
                            IF item.inline THEN extract_functions_recursive(item.items)
                            ELSE <<>>
                       [] item.kind = "impl" ->
                            LET fns == SelectSeq(item.items,
                                                 LAMBDA impl_item : impl_item.kind = "impl_fn")
                            IN  [i \in 1..Len(fns) |-> from_impl_function(fns[i])]
                       [] OTHER -> <<>>
         IN  here \o extract_functions_recursive(Tail(items))

\* functions() that looks at the top-level items of a file only
functions_top_level(q) ==
    Flatten([i \in 1..Len(q) |->
        IF q[i].variant = "File"
        THEN LET only == SelectSeq(q[i].data, LAMBDA item : item.kind = "fn")
             IN  [j \in 1..Len(only) |-> from_function(only[j])]
        ELSE <<>>])

functions(q) ==
    Flatten([i \in 1..Len(q) |->
        IF q[i].variant = "File" THEN extract_functions_recursive(q[i].data) ELSE <<>>])

structs(q) ==
    Flatten([i \in 1..Len(q) |->
        IF q[i].variant = "File"
        THEN LET only == SelectSeq(q[i].data, LAMBDA item : item.kind = "struct")
             IN  [j \in 1..Len(only) |-> from_struct(only[j])]
        ELSE <<>>])

filter(q, predicate(_)) == SelectSeq(q, predicate)

\* the inherent AstQuery::uses_unsafe, which a call q.uses_unsafe() resolves to
uses_unsafe(q) ==
    SelectSeq(q, LAMBDA node :
        CASE node.variant \in {"Function", "ImplFunction"} -> node.data.unsafety
          [] node.variant = "Block" ->
                \E i \in 1..Len(node.data) :
                    node.data[i].k = "expr" /\ node.data[i].init[1].k = "unsafe"
          [] OTHER -> FALSE)

derives_accounts(q) ==
    SelectSeq(q, LAMBDA node :
        /\ node.variant = "Struct"
        /\ \E i \in 1..Len(node.data.attrs) :
              LET attr == node.data.attrs[i]
              IN  /\ attr.list
                  /\ attr.path = S_derive
                  /\ Contains(TokensToString(attr.tokens), S_Accounts))

\* AstNode equality as derived: node_type, data (variant and the referenced
\* subtree, which syn compares without its spans) and name
RECURSIVE StripSpans(_)
StripSpans(items) ==
    [i \in 1..Len(items) |->
        [items[i] EXCEPT !.span = <<>>, !.items = StripSpans(items[i].items)]]

\* equality of the references themselves: two nodes are equal only when they
\* point at the same place of the tree
NodeSame(n, m) == n = m

\* the derived PartialEq of AstNode: node_type, data (by the value of the
\* referenced subtree, which syn compares without spans) and name
NodeEq(n, m) ==
    /\ n.node_type = m.node_type
    /\ n.variant = m.variant
    /\ n.name = m.name
    /\ CASE n.variant = "File" -> StripSpans(n.data) = StripSpans(m.data)
         [] n.variant \in {"Function", "ImplFunction", "Struct"} ->
                StripSpans(<<n.data>>) = StripSpans(<<m.data>>)
         [] OTHER -> n.data = m.data

\* a union that drops from b the nodes a already holds
or_dedup(a, b) == a \o SelectSeq(b, LAMBDA node : \A i \in 1..Len(a) : ~NodeEq(a[i], node))

or(a, b) == a \o b

and(a, b) == SelectSeq(a, LAMBDA node : \E i \in 1..Len(b) : NodeEq(b[i], node))

\* a complement that keeps its input
not_keep(a) == a

not(a) == <<>>

exists(q) == q # <<>>

count(q) == Len(q)

\* ------------------------------------------------------- domain filters

\* the token text of #[path(tokens)] as attr.meta prints it: "path (tokens)"
MetaToString(attr) ==
    IF attr.list
    THEN attr.path \o S_sp \o <<"(">> \o TokensToString(attr.tokens) \o <<")">>
    ELSE attr.path

\* the Debug text of a syn::Type names every identifier of the type
DebugType(ty) ==
    <<"T", "y", "p", "e", ":", ":", "P", "a", "t", "h", " ">> \o
    TokensToString(<<ty.head>> \o ty.args)

\* -- missing_signer_check/filters.rs

is_accounts_struct(item_struct) ==
    \E i \in 1..Len(item_struct.attrs) :
        /\ item_struct.attrs[i].path = S_derive
        /\ Contains(MetaToString(item_struct.attrs[i]), S_Accounts)

\* anchor_syn's account type of a field, by the head of its type; a type it
\* does not know makes the field a composite field
anchor_ty(field) ==
    CASE field.ty.head = S_AccountInfo -> "AccountInfo"
      [] field.ty.head = S_UncheckedAccount -> "UncheckedAccount"
      [] field.ty.head = S_SystemAccount -> "SystemAccount"
      [] field.ty.head = S_Signer -> "Signer"
      [] field.ty.head = S_Account -> "Account"
      [] field.ty.head = S_AccountLoader -> "AccountLoader"
      [] field.ty.head = S_Program -> "Program"
      [] field.ty.head = S_Sysvar -> "Sysvar"
      [] OTHER -> "Composite"

\* anchor_syn's ConstraintGroup::is_signer: an #[account(...)] attribute of the
\* field holds the token signer
anchor_is_signer(field) ==
    \E i \in 1..Len(field.attrs) :
        /\ field.attrs[i].list
        /\ field.attrs[i].path = S_account
        /\ \E j \in 1..Len(field.attrs[i].tokens) : field.attrs[i].tokens[j] = S_signer

has_signer_constraint(attrs) ==
    \E i \in 1..Len(attrs) :
        /\ attrs[i].path = S_account
        /\ Contains(MetaToString(attrs[i]), S_signer)

\* quote!(#field.ty): the tokens of the whole field, then ". ty"
FieldToString(field) ==
    Flatten([i \in 1..Len(field.attrs) |->
                <<"#", " ", "[">> \o MetaToString(field.attrs[i]) \o <<"]", " ">>]) \o
    <<"p", "u", "b", " ">> \o field.ident \o <<" ", ":", " ">> \o
    TokensToString(<<field.ty.head>> \o field.ty.args) \o <<" ", ".", " ", "t", "y">>

field_needs_signer_check(field, field_type) ==
    IF has_signer_constraint(field.attrs) THEN FALSE
    ELSE \/ Contains(field_type, S_AccountInfo)
         \/ Contains(field_type, S_UncheckedAccount)
         \/ Contains(field_type, S_SystemAccount)
         \/ (Contains(field_type, S_Account) /\ ~Contains(field_type, S_AccountLoader))

has_missing_signer_checks_fallback(item_struct) ==
    \E i \in 1..Len(item_struct.fields) :
        field_needs_signer_check(item_struct.fields[i], FieldToString(item_struct.fields[i]))

\* whether anchor_syn's accounts parser accepts the struct: every token of its
\* #[account(...)] attributes is one the parser knows
AnchorKnownTokens ==
    {S_mut, S_signer, S_constraint, S_seeds, S_bump, S_owner, S_address, S_eq, S_ne,
     S_comma, S_dot, S_key, S_parens, S_token_program, S_from, S_to, S_authority, S_vault}

convert_to_anchor_struct_optimized(item_struct) ==
    \A i \in 1..Len(item_struct.fields) :
        \A j \in 1..Len(item_struct.fields[i].attrs) :
            LET attr == item_struct.fields[i].attrs[j]
            IN  attr.path = S_account => Range(attr.tokens) \subseteq AnchorKnownTokens

has_missing_signer_checks(item_struct) ==
    IF ~is_accounts_struct(item_struct) THEN FALSE
    ELSE IF convert_to_anchor_struct_optimized(item_struct)
    THEN \E i \in 1..Len(item_struct.fields) :
            /\ anchor_ty(item_struct.fields[i]) \in
                   {"AccountInfo", "UncheckedAccount", "SystemAccount"}
            /\ ~anchor_is_signer(item_struct.fields[i])
    ELSE has_missing_signer_checks_fallback(item_struct)

\* -- duplicate_mutable_accounts/filters.rs

AccountTokenStrings(field) ==
    LET lists == SelectSeq(field.attrs, LAMBDA attr : attr.list /\ attr.path = S_account)
    IN  [i \in 1..Len(lists) |-> TokensToString(lists[i].tokens)]

\* the second pass without the look at the constraints of the other fields
own_constraint_only(field, all_constraints) == FALSE

\* whether a constraint collected in the first pass names the field and holds
\* an inequality
referenced_in_constraint(field, all_constraints) ==
    \E i \in 1..Len(all_constraints) :
        /\ Contains(all_constraints[i], field.ident)
        /\ Contains(all_constraints[i], S_ne)

has_duplicate_mutable_accounts(q) ==
    SelectSeq(q, LAMBDA node :
        /\ node.variant = "Struct"
        /\ LET fields == node.data.fields
               all_constraints ==
                   SelectSeq(Flatten([i \in 1..Len(fields) |-> AccountTokenStrings(fields[i])]),
                             LAMBDA tokens_str : Contains(tokens_str, S_constraint))
               is_mutable(field) ==
                   \E i \in 1..Len(AccountTokenStrings(field)) :
                       Contains(AccountTokenStrings(field)[i], S_mut)
               own_constraint(field) ==
                   \E i \in 1..Len(AccountTokenStrings(field)) :
                       LET tokens_str == AccountTokenStrings(field)[i]
                       IN  \/ Contains(tokens_str, S_constraint)
                           \/ Contains(tokens_str, S_seeds)
                           \/ Contains(tokens_str, S_bump)
                           \/ Contains(tokens_str, S_ne)
                           \/ Contains(tokens_str, S_key_call)
               has_field_constraint(field) ==
                   \/ own_constraint(field)
                   \/ /\ is_mutable(field)
                      /\ referenced_in_constraint(field, all_constraints)
               mutable_account_count ==
                   Cardinality({i \in 1..Len(fields) : is_mutable(fields[i])})
               mutable_accounts_with_constraints ==
                   Cardinality({i \in 1..Len(fields) :
                                   is_mutable(fields[i]) /\ has_field_constraint(fields[i])})
           IN  /\ mutable_account_count >= 2
               /\ mutable_account_count # mutable_accounts_with_constraints)

\* -- owner_check/filters.rs

has_owner_check(q) ==
    SelectSeq(q, LAMBDA node :
        /\ node.variant = "Struct"
        /\ \E i \in 1..Len(node.data.fields) :
              \E j \in 1..Len(AccountTokenStrings(node.data.fields[i])) :
                  LET tokens_str == AccountTokenStrings(node.data.fields[i])[j]
                  IN  \/ Contains(tokens_str, S_owner)
                      \/ Contains(tokens_str, S_address)
                      \/ (Contains(tokens_str, S_constraint) /\ Contains(tokens_str, S_owner)))

\* -- anchor_instructions/filters.rs

anchor_instructions(q) ==
    SelectSeq(q, LAMBDA node :
        /\ node.variant \in {"Function", "ImplFunction"}
        /\ node.data.vis = "pub"
        /\ \E i \in 1..Len(node.data.inputs) :
              Contains(DebugType(node.data.inputs[i]), S_Context))

\* -- missing_error_handling/filters.rs

\* a check that also accepts a function without a return type
returns_result_or_nothing(output) ==
    IF output = None THEN TRUE ELSE Contains(DebugType(output[1]), S_Result)

returns_result_type(output) ==
    IF output = None THEN FALSE ELSE Contains(DebugType(output[1]), S_Result)

missing_error_handling(q) ==
    SelectSeq(q, LAMBDA node :
        /\ node.variant \in {"Function", "ImplFunction"}
        /\ node.data.vis = "pub"
        /\ ~returns_result_type(node.data.output))

\* -- division_by_zero/filters.rs

\* UnsafeDivisionFinder::is_potentially_dangerous, safe_variables as the set
\* of its keys
is_potentially_dangerous(safe_variables, expr) ==
    CASE expr.k = "lit_int" -> expr.digits = S_d0
      [] expr.k = "lit_float" -> expr.digits = S_d0p0 \/ expr.digits = S_d0
      [] expr.k = "path" -> expr.ident \notin safe_variables
      [] expr.k = "call" -> TRUE
      [] expr.k = "field" -> TRUE
      [] expr.k = "binary" -> expr.op = "Sub"
      [] OTHER -> FALSE

\* the walk of syn::visit over a block with the finder's two overrides; the
\* finder is [found, safe_variables]
RECURSIVE visit_block(_, _), visit_expr(_, _), visit_exprs(_, _)

\* UnsafeDivisionFinder::visit_local, then the default walk into the initialiser
visit_local(finder, local) ==
    IF local.init = None THEN finder ELSE
    LET init == local.init[1]
        tracked ==
            /\ local.pat = "ident"
            /\ \/ (init.k = "lit_int" /\ init.digits # S_d0)
               \/ (init.k = "lit_float" /\ init.digits # S_d0 /\ init.digits # S_d0p0)
        after ==
            IF tracked
            THEN [finder EXCEPT !.safe_variables = @ \cup {local.ident}]
            ELSE finder
    IN  visit_expr(after, init)

\* UnsafeDivisionFinder::visit_expr_binary, then the default walk into both operands
visit_expr_binary(finder, expr) ==
    LET after ==
            IF expr.op = "Div" /\ is_potentially_dangerous(finder.safe_variables, expr.args[2])
            THEN [finder EXCEPT !.found = TRUE]
            ELSE finder
    IN  visit_exprs(after, expr.args)

visit_expr(finder, expr) ==
    IF expr.k = "binary" THEN visit_expr_binary(finder, expr)
    ELSE visit_block(visit_exprs(finder, expr.args), expr.stmts)

visit_exprs(finder, exprs) ==
    IF exprs = <<>> THEN finder
    ELSE visit_exprs(visit_expr(finder, Head(exprs)), Tail(exprs))

visit_block(finder, stmts) ==
    IF stmts = <<>> THEN finder
    ELSE LET stmt == Head(stmts)
             after == IF stmt.k = "local" THEN visit_local(finder, stmt)
                      ELSE visit_expr(finder, stmt.init[1])
         IN  visit_block(after, Tail(stmts))

has_unsafe_divisions(q) ==
    SelectSeq(q, LAMBDA node :
        /\ node.variant \in {"Function", "ImplFunction"}
        /\ visit_block([found |-> FALSE, safe_variables |-> {}], node.data.block).found)

\* ------------------------------------------------------------ span mapper

\* A str is a sequence of bytes. An ASCII character is one byte, written as
\* the character itself; the character e-acute is the two bytes C3 A9, the
\* second a continuation byte.
LF == "\n"
CR == "\r"
ContinuationBytes == {"A9"}

S_snippet_unavailable == <<"/", "/", " ", "C", "o", "d", "e", " ", "s", "n", "i", "p", "p", "e", "t", " ", "u", "n", "a", "v", "a", "i", "l", "a", "b", "l", "e">>
S_snippet_out_of_bounds == <<"/", "/", " ", "C", "o", "d", "e", " ", "s", "n", "i", "p", "p", "e", "t", " ", "o", "u", "t", " ", "o", "f", " ", "b", "o", "u", "n", "d", "s">>
S_context_unavailable == <<"/", "/", " ", "C", "o", "n", "t", "e", "x", "t", " ", "u", "n", "a", "v", "a", "i", "l", "a", "b", "l", "e">>
S_ellipsis == <<".", ".", ".">>

Min(a, b) == IF a < b THEN a ELSE b
Max(a, b) == IF a < b THEN b ELSE a

\* a call that returned v, and a call that panicked
Returned(v) == [status |-> "Ok", value |-> v]
Panicked == [status |-> "panic", value |-> <<>>]

\* the pieces of s between its line feeds, the last one being what follows
\* the last line feed; first is the index of the first line feed
RECURSIVE split_on_lf(_)
split_at(s, first) ==
    <<SubSeq(s, 1, first - 1)>> \o split_on_lf(SubSeq(s, first + 1, Len(s)))

split_on_lf(s) ==
    IF \A i \in 1..Len(s) : s[i] # LF THEN <<s>>
    ELSE split_at(s, CHOOSE i \in 1..Len(s) : s[i] = LF /\ \A j \in 1..(i - 1) : s[j] # LF)

\* a line without the carriage return of its \r\n ending
strip_cr(piece) ==
    IF piece # <<>> /\ piece[Len(piece)] = CR THEN SubSeq(piece, 1, Len(piece) - 1) ELSE piece

\* the lines of the pieces: what follows the last line feed is a line only
\* when it is not empty
lines_of(pieces) ==
    [i \in 1..(IF pieces[Len(pieces)] = <<>> THEN Len(pieces) - 1 ELSE Len(pieces)) |->
        IF i < Len(pieces) THEN strip_cr(pieces[i]) ELSE pieces[i]]

\* str::lines: the lines of s without their line endings (\n or \r\n)
lines(s) == lines_of(split_on_lf(s))

\* str::is_char_boundary
is_char_boundary(s, index) ==
    \/ index = 0
    \/ index = Len(s)
    \/ index < Len(s) /\ s[index + 1] \notin ContinuationBytes

\* &s[begin..end]: the bytes begin..end-1 (counted from 0); a panic when the
\* range is reversed, passes the end or cuts a character
str_index(s, begin, end) ==
    IF begin <= end /\ end <= Len(s) /\ is_char_boundary(s, begin) /\ is_char_boundary(s, end)
    THEN Returned(SubSeq(s, begin + 1, end))
    ELSE Panicked

\* String::push_str on the result of a slice that may have panicked
push_str(snippet, part) ==
    IF snippet.status = "panic" \/ part.status = "panic" THEN Panicked
    ELSE Returned(snippet.value \o part.value)

\* span_to_snippet once the lines of the source are collected
snippet_of_lines(ls, span) ==
    IF span[1] > Len(ls) \/ span[3] > Len(ls)
             THEN Returned(S_snippet_out_of_bounds)
             ELSE LET start_line_idx == Max(span[1] - 1, 0)
                      end_line_idx == Min(span[3] - 1, Len(ls) - 1)
                      first_line == ls[start_line_idx + 1]
                      last_line == ls[end_line_idx + 1]
                      first_part == IF span[2] < Len(first_line)
                                    THEN str_index(first_line, span[2], Len(first_line))
                                    ELSE Returned(first_line)
                      middle == Flatten([i \in 1..(end_line_idx - start_line_idx - 1) |->
                                            Append(ls[start_line_idx + 1 + i], LF)])
                      last_part == IF span[4] <= Len(last_line)
                                   THEN str_index(last_line, 0, span[4])
                                   ELSE Returned(last_line)
                 IN  IF start_line_idx = end_line_idx
                     THEN IF span[2] < Len(first_line) /\ span[4] <= Len(first_line)
                          THEN str_index(first_line, span[2], Min(span[4], Len(first_line)))
                          ELSE Returned(first_line)
                     ELSE push_str(push_str(push_str(first_part, Returned(<<LF>>)),
                                            Returned(middle)), last_part)

\* SpanExtractor::span_to_snippet; a span is <<start.line, start.column,
\* end.line, end.column>>, lines counted from 1 and columns, in characters,
\* from 0
span_to_snippet(source_code, span) ==
    IF span[1] = 0 \/ span[3] = 0 THEN Returned(S_snippet_unavailable)
    ELSE snippet_of_lines(lines(source_code), span)

\* SpanExtractor::extract_snippet
extract_snippet(source_code, span) == span_to_snippet(source_code, span)

\* one line of the text extract_context builds: the marker, the line number
\* (printed right-aligned in three columns) and the line
ContextRow(marker, actual_line_num, line) ==
    [marker |-> marker, actual_line_num |-> actual_line_num, line |-> line]

\* SpanExtractor::extract_context: the rows for the line indices
\* context_start..context_end-1
extract_context(source_code, span, context_lines) ==
    IF span[1] = 0 \/ span[3] = 0 THEN Returned(S_context_unavailable)
    ELSE LET ls == lines(source_code)
             context_start == Max(Max(span[1] - (context_lines + 1), 0), 0)
             context_end == Min(span[3] + context_lines - 1, Len(ls))
         IN  Returned([i \in 1..(context_end - context_start) |->
                LET line_idx == context_start + i - 1
                    actual_line_num == line_idx + 1
                IN  IF actual_line_num >= span[1] /\ actual_line_num <= span[3]
                    THEN ContextRow("->", actual_line_num, ls[line_idx + 1])
                    ELSE ContextRow("  ", actual_line_num, ls[line_idx + 1])])

\* Location::format_location: the pieces format! writes, numbers in decimal
format_location(loc) ==
    IF loc.column # None /\ loc.end_line # None /\ loc.end_column # None
       /\ loc.end_line[1] # loc.line
    THEN <<loc.file, ":", loc.line, ":", loc.column[1], "-", loc.end_line[1], ":",
           loc.end_column[1]>>
    ELSE IF loc.column # None /\ loc.end_column # None
    THEN <<loc.file, ":", loc.line, ":", loc.column[1], "-", loc.end_column[1]>>
    ELSE IF loc.column # None
    THEN <<loc.file, ":", loc.line, ":", loc.column[1]>>
    ELSE <<loc.file, ":", loc.line>>

\* ------------------------------------------------- source texts

\* the text of e2e.rs, character by character
E2E_Source ==
    <<"#", "[", "d", "e", "r", "i", "v", "e", "(", "A", "c", "c", "o", "u", "n", "t", "s", ")",
         "]", LF>>
    \o <<"p", "u", "b", " ", "s", "t", "r", "u", "c", "t", " ", "C", "t", "x", "<", "'", "i",
         "n", "f", "o", ">", " ", "{", LF>>
    \o <<" ", " ", " ", " ", "p", "u", "b", " ", "a", "u", "t", "h", "o", "r", "i", "t", "y",
         ":", " ", "A", "c", "c", "o", "u", "n", "t", "I", "n", "f", "o", "<", "'", "i", "n",
         "f", "o", ">", ",", LF>>
    \o <<"}", LF>>
    \o <<LF>>
    \o <<"p", "u", "b", " ", "f", "n", " ", "h", "a", "n", "d", "l", "e", "r", "(", "c", "t",
         "x", ":", " ", "C", "o", "n", "t", "e", "x", "t", "<", "C", "t", "x", ">", ")", " ",
         "{", LF>>
    \o <<" ", " ", " ", " ", "l", "e", "t", " ", "x", " ", "=", " ", "1", ";", LF>>
    \o <<" ", " ", " ", " ", "l", "e", "t", " ", "y", " ", "=", " ", "0", ";", LF>>
    \o <<" ", " ", " ", " ", "l", "e", "t", " ", "_", " ", "=", " ", "x", " ", "/", " ", "y",
         ";", LF>>
    \o <<"}", LF>>

\* the text of lib.rs
Lib_Source ==
    <<"#", "[", "d", "e", "r", "i", "v", "e", "(", "A", "c", "c", "o", "u", "n", "t", "s", ")",
         "]", LF>>
    \o <<"p", "u", "b", " ", "s", "t", "r", "u", "c", "t", " ", "T", "r", "a", "n", "s", "f",
         "e", "r", "<", "'", "i", "n", "f", "o", ">", " ", "{", LF>>
    \o <<" ", " ", " ", " ", "#", "[", "a", "c", "c", "o", "u", "n", "t", "(", "m", "u", "t",
         ")", "]", LF>>
    \o <<" ", " ", " ", " ", "p", "u", "b", " ", "f", "r", "o", "m", ":", " ", "A", "c", "c",
         "o", "u", "n", "t", "<", "'", "i", "n", "f", "o", ",", " ", "T", "o", "k", "e", "n",
         "A", "c", "c", "o", "u", "n", "t", ">", ",", LF>>
    \o <<" ", " ", " ", " ", "#", "[", "a", "c", "c", "o", "u", "n", "t", "(", "m", "u", "t",
         ")", "]", LF>>
    \o <<" ", " ", " ", " ", "p", "u", "b", " ", "t", "o", ":", " ", "A", "c", "c", "o", "u",
         "n", "t", "<", "'", "i", "n", "f", "o", ",", " ", "T", "o", "k", "e", "n", "A", "c",
         "c", "o", "u", "n", "t", ">", ",", LF>>
    \o <<" ", " ", " ", " ", "#", "[", "a", "c", "c", "o", "u", "n", "t", "(", "s", "i", "g",
         "n", "e", "r", ")", "]", LF>>
    \o <<" ", " ", " ", " ", "p", "u", "b", " ", "a", "u", "t", "h", "o", "r", "i", "t", "y",
         ":", " ", "A", "c", "c", "o", "u", "n", "t", "I", "n", "f", "o", "<", "'", "i", "n",
         "f", "o", ">", ",", LF>>
    \o <<" ", " ", " ", " ", "#", "[", "a", "c", "c", "o", "u", "n", "t", "(", "a", "d", "d",
         "r", "e", "s", "s", " ", "=", " ", "t", "o", "k", "e", "n", "_", "p", "r", "o", "g",
         "r", "a", "m", ")", "]", LF>>
    \o <<" ", " ", " ", " ", "p", "u", "b", " ", "t", "o", "k", "e", "n", "_", "p", "r", "o",
         "g", "r", "a", "m", ":", " ", "P", "r", "o", "g", "r", "a", "m", "<", "'", "i", "n",
         "f", "o", ",", " ", "T", "o", "k", "e", "n", ">", ",", LF>>
    \o <<"}", LF>>
    \o <<LF>>
    \o <<"#", "[", "d", "e", "r", "i", "v", "e", "(", "D", "e", "b", "u", "g", ",", " ", "C",
         "l", "o", "n", "e", ")", "]", LF>>
    \o <<"p", "u", "b", " ", "s", "t", "r", "u", "c", "t", " ", "P", "o", "o", "l", " ", "{",
         " ", "p", "u", "b", " ", "t", "o", "t", "a", "l", ":", " ", "u", "6", "4", ",", LF>>
    \o <<"}", LF>>
    \o <<LF>>
    \o <<"p", "u", "b", " ", "u", "n", "s", "a", "f", "e", " ", "f", "n", " ", "r", "a", "w",
         "(", "a", "m", "o", "u", "n", "t", ":", " ", "u", "6", "4", ")", " ", "-", ">", " ",
         "R", "e", "s", "u", "l", "t", "<", "(", ")", ">", " ", "{", LF>>
    \o <<" ", " ", " ", " ", "l", "e", "t", " ", "z", " ", "=", " ", "5", ";", LF>>
    \o <<" ", " ", " ", " ", "l", "e", "t", " ", "_", " ", "=", " ", "a", "m", "o", "u", "n",
         "t", " ", "/", " ", "z", ";", LF>>
    \o <<"}", LF>>
    \o <<LF>>
    \o <<"f", "n", " ", "h", "e", "l", "p", "e", "r", "(", "a", "m", "o", "u", "n", "t", ":",
         " ", "u", "6", "4", ")", " ", "-", ">", " ", "u", "6", "4", " ", "{", LF>>
    \o <<" ", " ", " ", " ", "u", "n", "s", "a", "f", "e", " ", "{", " ", "s", "c", "a", "n",
         "(", "a", "m", "o", "u", "n", "t", ")", " ", "}", LF>>
    \o <<"}", LF>>
    \o <<LF>>
    \o <<"m", "o", "d", " ", "i", "n", "n", "e", "r", " ", "{", LF>>
    \o <<" ", " ", " ", " ", "p", "u", "b", " ", "f", "n", " ", "n", "e", "s", "t", "e", "d",
         "(", "c", "t", "x", ":", " ", "C", "o", "n", "t", "e", "x", "t", "<", "T", "r", "a",
         "n", "s", "f", "e", "r", ">", ",", " ", "p", "a", "r", "t", "s", ":", " ", "u", "6",
         "4", ")", " ", "-", ">", " ", "R", "e", "s", "u", "l", "t", "<", "(", ")", ">", " ",
         "{", LF>>
    \o <<" ", " ", " ", " ", " ", " ", " ", " ", "l", "e", "t", " ", "_", " ", "=", " ", "t",
         "o", "t", "a", "l", " ", "/", " ", "p", "a", "r", "t", "s", ".", "l", "e", "n", "(",
         ")", ";", LF>>
    \o <<" ", " ", " ", " ", "}", LF>>
    \o <<"}", LF>>
    \o <<LF>>
    \o <<"i", "m", "p", "l", " ", "P", "o", "o", "l", " ", "{", LF>>
    \o <<" ", " ", " ", " ", "p", "u", "b", " ", "f", "n", " ", "r", "u", "n", "(", "a", "m",
         "o", "u", "n", "t", ":", " ", "u", "6", "4", ")", " ", "{", LF>>
    \o <<" ", " ", " ", " ", " ", " ", " ", " ", "l", "e", "t", " ", "_", " ", "=", " ", "a",
         "m", "o", "u", "n", "t", " ", "/", " ", "2", ";", LF>>
    \o <<" ", " ", " ", " ", "}", LF>>
    \o <<"}", LF>>

\* the text gone.rs was parsed from: fn helper on lines 22 to 24
Gone_Source ==
    <<LF>>
    \o <<LF>>
    \o <<LF>>
    \o <<LF>>
    \o <<LF>>
    \o <<LF>>
    \o <<LF>>
    \o <<LF>>
    \o <<LF>>
    \o <<LF>>
    \o <<LF>>
    \o <<LF>>
    \o <<LF>>
    \o <<LF>>
    \o <<LF>>
    \o <<LF>>
    \o <<LF>>
    \o <<LF>>
    \o <<LF>>
    \o <<LF>>
    \o <<LF>>
    \o <<"f", "n", " ", "h", "e", "l", "p", "e", "r", "(", "a", "m", "o", "u", "n", "t", ":",
         " ", "u", "6", "4", ")", " ", "-", ">", " ", "u", "6", "4", " ", "{", LF>>
    \o <<" ", " ", " ", " ", "u", "n", "s", "a", "f", "e", " ", "{", " ", "s", "c", "a", "n",
         "(", "a", "m", "o", "u", "n", "t", ")", " ", "}", LF>>
    \o <<"}", LF>>

\* the text of accent.rs, byte by byte
Accent_Source ==
    <<"u", "n", "s", "a", "f", "e", " ", "f", "n", " ">>
    \o <<"C3", "A9", "C3", "A9", "C3", "A9", "C3", "A9", "C3", "A9", "C3", "A9">>
    \o <<"(", ")", " ", "{", "}", LF>>

\* the source text of a file, as read when it was parsed
Source(path) ==
    CASE path = "e2e.rs" -> E2E_Source
      [] path = "lib.rs" -> Lib_Source
      [] path = "accent.rs" -> Accent_Source
      [] OTHER -> Gone_Source

\* ------------------------------------------------------------- findings

Severities == {"High", "Medium", "Low", "Informational"}
RuleTypes == {"Solana", "Anchor", "General"}

\* SpanExtractor::span_to_location
span_to_location(file_path, span) ==
    IF span[1] > 0
    THEN [file |-> file_path, line |-> span[1], column |-> Some(span[2]),
          end_line |-> Some(span[3]), end_column |-> Some(span[4])]
    ELSE [file |-> file_path, line |-> 1, column |-> None,
          end_line |-> None, end_column |-> None]

\* SpanExtractor::extract_location
extract_location(file_path, span) == span_to_location(file_path, span)

create_fallback_location(file_path) ==
    [file |-> file_path, line |-> 1, column |-> None, end_line |-> None, end_column |-> None]

\* Finding; the description is kept as the pieces it is formatted from
Finding(title, name, description, severity, location, code_snippet) ==
    [title |-> title, name |-> name, description |-> description,
     severity |-> severity, location |-> location, code_snippet |-> code_snippet]

\* SpanExtractor::new
SpanExtractor_new(source_code, file_path) ==
    [source_code |-> source_code, file_path |-> file_path]

\* the span of a syn::File: from its first item to its last one; the
\* call-site span for a file without items
file_span(file) ==
    IF file = <<>> THEN <<1, 0, 1, 0>>
    ELSE <<file[1].span[1], file[1].span[2], file[Len(file)].span[3], file[Len(file)].span[4]>>

\* AstNode::get_spanned_node, as the span of the node it returns
get_spanned_node(node) ==
    CASE node.variant = "Other" -> None
      [] node.variant = "File" -> Some(file_span(node.data))
      [] OTHER -> Some(node.data.span)

\* AstNode::snippet: the placeholder text
snippet(node) ==
    CASE node.variant \in {"Function", "ImplFunction"} ->
            <<"f", "n", " ">> \o node.data.ident \o <<"(", ".", ".", ".", ")">>
      [] node.variant = "Struct" -> <<"s", "t", "r", "u", "c", "t", " ">> \o node.data.ident
      [] OTHER -> S_ellipsis

\* the closure of the map in to_findings_with_span_extractor: the finding
\* of one node, or the panic of extract_snippet
NodeFinding(node, severity, title, description, file_path, span_extractor) ==
    LET spanned_node == get_spanned_node(node)
        location == IF spanned_node # None
                    THEN extract_location(span_extractor.file_path, spanned_node[1])
                    ELSE create_fallback_location(file_path)
        code_snippet == IF spanned_node # None
                        THEN extract_snippet(span_extractor.source_code, spanned_node[1])
                        ELSE Returned(snippet(node))
    IN  IF code_snippet.status = "panic" THEN Panicked
        ELSE Returned(Finding(title, node.name, description, severity, location,
                              Some(code_snippet.value)))

\* AstQuery::to_findings_with_span_extractor: one finding per result node; the
\* description is "{title} in '{name}'. {description}" or "{title}: {description}"
to_findings_with_span_extractor(q, severity, title, description, file_path, span_extractor) ==
    LET mapped == [i \in 1..Len(q) |->
                      NodeFinding(q[i], severity, title, description, file_path,
                                  span_extractor)]
    IN  IF \E i \in 1..Len(q) : mapped[i].status = "panic" THEN Panicked
        ELSE Returned([i \in 1..Len(q) |-> mapped[i].value])

\* ----------------------------------------------------------- rule builder

\* the closure a rule runs: a DSL query wrapped with the metadata captured
\* when dsl_query was called, or a hand-written check
Closure(kind, dsl, severity, title, description, emits, errOn, panicOn) ==
    [kind |-> kind, dsl |-> dsl, severity |-> severity, title |-> title,
     description |-> description, emits |-> emits, errOn |-> errOn, panicOn |-> panicOn]

RuleBuilder_new ==
    [id |-> "", title |-> "", description |-> "", severity |-> "Medium",
     rule_type |-> "Solana", query_builder |-> None, enabled |-> TRUE]

id(b, v) == [b EXCEPT !.id = v]
title(b, v) == [b EXCEPT !.title = v]
description(b, v) == [b EXCEPT !.description = v]
severity(b, v) == [b EXCEPT !.severity = v]
rule_type(b, v) == [b EXCEPT !.rule_type = v]
enabled(b, v) == [b EXCEPT !.enabled = v]

dsl_query(b, dsl_builder) ==
    [b EXCEPT !.query_builder =
        Some(Closure("dsl", dsl_builder, b.severity, b.title, b.description, <<>>, {}, {}))]

\* RuleBuilder::build; the builder is only built with a query set
build(b) ==
    [id |-> b.id, title |-> b.title, description |-> b.description,
     severity |-> b.severity, rule_type |-> b.rule_type,
     query_builder |-> b.query_builder[1], enabled |-> b.enabled]

\* -------------------------------------------------- built-in catalogue

unsafe_code_create_rule ==
    build(dsl_query(rule_type(severity(description(title(id(RuleBuilder_new,
        "solana-unsafe-code"), "Unsafe Code Usage"),
        "Using unsafe code in Solana programs can lead to security vulnerabilities"),
        "High"), "Solana"), "unsafe_code"))

missing_signer_check_create_rule ==
    build(dsl_query(severity(description(title(id(RuleBuilder_new,
        "missing-signer-check"), "Missing Signer Check"),
        "Detects Anchor account fields that may need signer verification"),
        "High"), "missing_signer_check"))

duplicate_mutable_accounts_create_rule ==
    build(dsl_query(description(title(severity(id(RuleBuilder_new,
        "duplicate-mutable-accounts"), "Medium"), "Duplicate Mutable Accounts"),
        "Detects account structs with multiple mutable references to the same account type, which can lead to unexpected behavior"),
        "duplicate_mutable_accounts"))

division_by_zero_create_rule ==
    build(dsl_query(description(title(severity(id(RuleBuilder_new,
        "solana-division-by-zero"), "Medium"), "Division Without Zero Check"),
        "Detects division operations without zero verification"),
        "division_by_zero"))

owner_check_create_rule ==
    build(dsl_query(description(title(severity(id(RuleBuilder_new,
        "owner-check"), "Medium"), "Owner Check Validation"),
        "Detects structs that properly implement owner checks for account validation"),
        "owner_check"))

missing_error_handling_create_rule ==
    build(dsl_query(rule_type(description(title(severity(id(RuleBuilder_new,
        "solana-missing-error-handling"), "Low"),
        "Missing Error Handling in Public Functions"),
        "Detects public functions that don't return Result<T> and may fail silently. In Solana contracts, proper error handling is essential for security and debugging."),
        "Solana"), "missing_error_handling"))

anchor_instructions_create_rule ==
    build(dsl_query(description(title(severity(id(RuleBuilder_new,
        "anchor-instructions"), "Low"), "Anchor Instructions Detection"),
        "Detects functions that are Anchor program instructions (public functions with Context parameter)"),
        "anchor_instructions"))

\* the query each built-in rule's dsl_query closure runs on a file
RunDsl(dsl, ast) ==
    CASE dsl = "unsafe_code" -> uses_unsafe(functions(new(ast)))
      [] dsl = "missing_signer_check" ->
            filter(derives_accounts(structs(new(ast))),
                   LAMBDA node : IF node.variant = "Struct"
                                 THEN has_missing_signer_checks(node.data) ELSE FALSE)
      [] dsl = "duplicate_mutable_accounts" ->
            has_duplicate_mutable_accounts(derives_accounts(structs(new(ast))))
      [] dsl = "division_by_zero" -> has_unsafe_divisions(functions(new(ast)))
      [] dsl = "owner_check" -> has_owner_check(derives_accounts(structs(new(ast))))
      [] dsl = "missing_error_handling" -> missing_error_handling(functions(new(ast)))
      [] dsl = "anchor_instructions" -> anchor_instructions(functions(new(ast)))
      [] OTHER -> <<>>

DslNames ==
    {"unsafe_code", "missing_signer_check", "duplicate_mutable_accounts",
     "division_by_zero", "owner_check", "missing_error_handling", "anchor_instructions"}

\* the nodes each built-in query selects in each file
QueryResults == [path \in ParsedPaths |-> [dsl \in DslNames |-> RunDsl(dsl, Ast(path))]]

\* ---------------------------------------------------------- rule engine

\* a Result: Ok(findings), Err, or a panic unwinding out of the call
Ok(findings) == [status |-> "Ok", findings |-> findings]
Err == [status |-> "Err", findings |-> <<>>]
Panic == [status |-> "panic", findings |-> <<>>]

\* the closure RuleBuilder::dsl_query stores: it runs the query on the AST and
\* converts the selected nodes with the metadata it captured
query_builder(c, file_path) ==
    to_findings_with_span_extractor(QueryResults[file_path][c.dsl],
        c.severity, c.title, c.description, file_path,
        SpanExtractor_new(Source(file_path), file_path))

\* Rule::check: the closure RuleBuilder::build wraps around the query, or a
\* hand-written Rule whose check returns Ok, returns Err or panics
check(rule, file_path) ==
    LET c == rule.query_builder
    IN  IF c.kind = "dsl"
        THEN LET findings == query_builder(c, file_path)
             IN  IF findings.status = "panic" THEN Panic
                 ELSE IF rule.enabled THEN Ok(findings.value) ELSE Ok(<<>>)
        ELSE IF file_path \in c.panicOn THEN Panic
        ELSE IF file_path \in c.errOn THEN Err
        ELSE Ok([i \in 1..Len(c.emits) |->
                    Finding(rule.title, None, rule.description, c.emits[i],
                            create_fallback_location(file_path), None)])

\* add_rule without the rule_type check
add_rule_any_type(cfg, rs, rule) ==
    IF rule.severity \in cfg.ignore_severities THEN rs
    ELSE IF rule.id \in cfg.ignore_rules THEN rs
    ELSE Append(rs, rule)

\* RuleEngine::add_rule
add_rule(cfg, rs, rule) ==
    IF rule.severity \in cfg.ignore_severities THEN rs
    ELSE IF rule.id \in cfg.ignore_rules THEN rs
    ELSE IF rule.rule_type \notin cfg.include_rule_types THEN rs
    ELSE Append(rs, rule)

\* the rules register_solana_rules hands to add_rule, in its order
BuiltinCatalogue ==
    <<unsafe_code_create_rule, missing_signer_check_create_rule,
      duplicate_mutable_accounts_create_rule, division_by_zero_create_rule,
      owner_check_create_rule, missing_error_handling_create_rule,
      anchor_instructions_create_rule>>

RECURSIVE AddAll(_, _, _)
AddAll(cfg, rs, offers) ==
    IF offers = <<>> THEN rs
    ELSE AddAll(cfg, add_rule(cfg, rs, Head(offers)), Tail(offers))

\* a registration that leaves owner_check out
register_without_owner_check(cfg, rs) ==
    AddAll(cfg, rs, SelectSeq(BuiltinCatalogue, LAMBDA rule : rule.id # "owner-check"))

register_solana_rules(cfg, rs) == AddAll(cfg, rs, BuiltinCatalogue)

register_builtin_rules(cfg, rs) == register_solana_rules(cfg, rs)

\* RuleEngine::load_builtin_rules
load_builtin_rules(cfg, rs) == register_builtin_rules(cfg, rs)

\* a hand-written Rule: its check returns Ok with one finding per severity of
\* emits, returns Err on the files of errOn and panics on the files of panicOn
CustomRule(rule_id, sev, ty, emits, errOn, panicOn) ==
    [id |-> rule_id, title |-> rule_id, description |-> "custom rule",
     severity |-> sev, rule_type |-> ty,
     query_builder |-> Closure("custom", "", sev, rule_id, "custom rule", emits, errOn, panicOn),
     enabled |-> TRUE]

CustomRules ==
    <<CustomRule("custom-mixed", "Medium", "Anchor", <<"Low", "Medium">>, {}, {}),
      CustomRule("custom-err", "Low", "Solana", <<"Low">>, {"lib.rs"}, {}),
      CustomRule("custom-panic", "High", "General", <<"High">>, {}, {"lib.rs"})>>

\* what rule.check(ast, file_path) gives for each rule an engine can hold and
\* each file
CheckResults ==
    [file_path \in FilePaths |->
        [rule \in Range(BuiltinCatalogue) \cup Range(CustomRules) |-> check(rule, file_path)]]

\* RuleEngine::execute_rules: the loop over the registry from rule i on, with
\* the findings collected so far
RECURSIVE ExecuteFrom(_, _, _, _)
\* a match that leaves out the findings already collected
MatchCheckOnce(rs, i, file_path, findings, r) ==
    CASE r.status = "Ok" ->
            ExecuteFrom(rs, i + 1, file_path,
                        findings \o SelectSeq(r.findings, LAMBDA f : f \notin Range(findings)))
      [] r.status = "Err" -> ExecuteFrom(rs, i + 1, file_path, findings)
      [] OTHER -> Panic

\* the match on the result r of the check of rule i
MatchCheck(rs, i, file_path, findings, r) ==
    CASE r.status = "Ok" -> ExecuteFrom(rs, i + 1, file_path, findings \o r.findings)
      [] r.status = "Err" -> ExecuteFrom(rs, i + 1, file_path, findings)
      [] OTHER -> Panic

ExecuteFrom(rs, i, file_path, findings) ==
    IF i > Len(rs) THEN Ok(findings)
    ELSE MatchCheck(rs, i, file_path, findings, CheckResults[file_path][rs[i]])

execute_rules(rs, file_path) == ExecuteFrom(rs, 1, file_path, <<>>)

\* ------------------------------------------------------------- analyzer

\* Analyzer::analyze_file
analyze_file(rs, file_path) ==
    IF ~Readable(file_path) THEN Err
    ELSE execute_rules(rs, file_path)

\* stats.findings_by_severity after counting the findings: a map whose keys
\* are the severities counted at least once
RECURSIVE CountBySeverity(_, _)
\* a count that records each severity once
CountSeverityOnce(map, findings) ==
    [s \in DOMAIN map \cup {findings[i].severity : i \in 1..Len(findings)} |->
        IF s \in DOMAIN map THEN map[s] ELSE 1]

CountBySeverity(map, findings) ==
    IF findings = <<>> THEN map
    ELSE LET s == Head(findings).severity
             next == IF s \in DOMAIN map
                     THEN [map EXCEPT ![s] = @ + 1]
                     ELSE [k \in DOMAIN map \cup {s} |-> IF k = s THEN 1 ELSE map[k]]
         IN  CountBySeverity(next, Tail(findings))

EmptyMap == [k \in {} |-> 0]

\* an aggregation that keeps every finding
retain_all(findings, ignore_severities) == findings

\* the retain of analyze_files: drop the findings whose severity is ignored
retain(findings, ignore_severities) ==
    SelectSeq(findings, LAMBDA f : f.severity \notin ignore_severities)

\* Analyzer::analyze_files: the loop over the files from file i on
RECURSIVE AnalyzeFrom(_, _, _, _, _, _)
\* the Ok arm for the findings kept of file i: count them and extend
\* all_findings
ExtendFindings(cfg, rs, files, i, all_findings, by_severity, kept) ==
    AnalyzeFrom(cfg, rs, files, i + 1, all_findings \o kept,
                CountBySeverity(by_severity, kept))

\* the match on the result r of analyze_file for file i
MatchAnalysis(cfg, rs, files, i, all_findings, by_severity, r) ==
    CASE r.status = "Ok" ->
            ExtendFindings(cfg, rs, files, i, all_findings, by_severity,
                           retain(r.findings, cfg.ignore_severities))
      [] r.status = "Err" ->
            AnalyzeFrom(cfg, rs, files, i + 1, all_findings, by_severity)
      [] OTHER ->
            [status |-> "panic", findings |-> <<>>,
             stats |-> [files_analyzed |-> 0, findings_by_severity |-> EmptyMap]]

AnalyzeFrom(cfg, rs, files, i, all_findings, by_severity) ==
    IF i > Len(files)
    THEN [status |-> "Ok", findings |-> all_findings,
          stats |-> [files_analyzed |-> Len(files), findings_by_severity |-> by_severity]]
    ELSE MatchAnalysis(cfg, rs, files, i, all_findings, by_severity,
                       analyze_file(rs, files[i]))

analyze_files(cfg, rs, files) == AnalyzeFrom(cfg, rs, files, 1, <<>>, EmptyMap)

\* ------------------------------------------------ rules and configurations

Config(ignore_severities, ignore_rules, include_rule_types) ==
    [ignore_severities |-> ignore_severities, ignore_rules |-> ignore_rules,
     include_rule_types |-> include_rule_types]

\* RuleEngineConfig::default
DefaultConfig == Config({}, {}, {"Solana", "Anchor", "General"})

Configs ==
    {DefaultConfig,
     Config({"Low"}, {"owner-check", "custom-panic"}, {"Solana", "Anchor", "General"}),
     Config({}, {}, {"Anchor", "General"}),
     Config({"High"}, {}, {})}

\* the batches of files handed to analyze_files
Batches ==
    {<<>>, <<"e2e.rs">>, <<"lib.rs">>, <<"gone.rs">>, <<"e2e.rs", "e2e.rs">>,
     <<"gone.rs", "e2e.rs">>, <<"gone.rs", "lib.rs">>, <<"lib.rs", "e2e.rs">>,
     <<"e2e.rs", "gone.rs", "lib.rs">>}

\* --------------------------------------------------------- state machine

IsCustom(rule) == rule.query_builder.kind = "custom"
NumCustom(rs) == Len(SelectSeq(rs, IsCustom))
NumLoads(rs) == (Len(rs) - NumCustom(rs)) \div Len(BuiltinCatalogue)

NoStats == [files_analyzed |-> 0, findings_by_severity |-> EmptyMap]

Last(op, file, files, result, stats, base) ==
    [op |-> op, file |-> file, files |-> files, status |-> result.status,
     findings |-> result.findings, stats |-> stats, base |-> base]

\* the AnalysisResult of analyze_files, with its statistics
LastOfAnalysis(files, result, base) ==
    Last("analyze_files", "", files, result, result.stats, base)

NoResult == [status |-> "", findings |-> <<>>]

QueryIdle == [op |-> "none", result |-> <<>>]

NoCall == [op |-> "none"]

\* constructors that all load the built-in rules
InitWithBuiltins ==
    /\ ctor \in {"RuleEngine::new", "Analyzer::new", "Analyzer::with_options"}
    /\ config \in Configs
    /\ ctor = "Analyzer::new" => config = DefaultConfig
    /\ rules = load_builtin_rules(config, <<>>)
    /\ offered = IF ctor = "Analyzer::with_options" THEN BuiltinCatalogue ELSE <<>>
    /\ last = Last("new", "", <<>>, NoResult, NoStats, 0)
    /\ qa = <<>>
    /\ qb = <<>>
    /\ qr = QueryIdle
    /\ call = NoCall
    /\ ret = NoCall
    /\ builder = NoCall

\* RuleEngine::new(config), Analyzer::new() and Analyzer::with_options(options)
Init ==
    /\ ctor \in {"RuleEngine::new", "Analyzer::new", "Analyzer::with_options"}
    /\ config \in Configs
    /\ ctor = "Analyzer::new" => config = DefaultConfig
    /\ rules = IF ctor = "Analyzer::with_options"
               THEN load_builtin_rules(config, <<>>) ELSE <<>>
    /\ offered = IF ctor = "Analyzer::with_options" THEN BuiltinCatalogue ELSE <<>>
    /\ last = Last("new", "", <<>>, NoResult, NoStats, 0)
    /\ qa = <<>>
    /\ qb = <<>>
    /\ qr = QueryIdle
    /\ call = NoCall
    /\ ret = NoCall
    /\ builder = NoCall

\* add_rule on the engine; for an Analyzer, on its rule_engine field, which
\* the code of the analyzer module reaches
AddRule(rule) ==
    /\ NumCustom(offered) < MaxAdds
    /\ rules' = add_rule(config, rules, rule)
    /\ offered' = Append(offered, rule)
    /\ last' = Last("add_rule", "", <<>>, NoResult, NoStats, Len(rules))
    /\ UNCHANGED <<ctor, config, qa, qb, qr, call, ret, builder>>

LoadBuiltinRules ==
    /\ NumLoads(offered) < MaxLoads
    /\ rules' = load_builtin_rules(config, rules)
    /\ offered' = offered \o BuiltinCatalogue
    /\ last' = Last("load_builtin_rules", "", <<>>, NoResult, NoStats, Len(rules))
    /\ UNCHANGED <<ctor, config, qa, qb, qr, call, ret, builder>>

ExecuteRules(file_path) ==
    /\ last' = Last("execute_rules", file_path, <<>>, execute_rules(rules, file_path),
                    NoStats, Len(rules))
    /\ UNCHANGED <<ctor, config, rules, offered, qa, qb, qr, call, ret, builder>>

AnalyzeFiles(files) ==
    /\ ctor \in {"Analyzer::new", "Analyzer::with_options"}
    /\ last' = LastOfAnalysis(files, analyze_files(config, rules, files), Len(rules))
    /\ UNCHANGED <<ctor, config, rules, offered, qa, qb, qr, call, ret, builder>>

Next ==
    \/ \E i \in 1..Len(CustomRules) : AddRule(CustomRules[i])
    \/ LoadBuiltinRules
    \/ \E file_path \in FilePaths : ExecuteRules(file_path)
    \/ \E files \in Batches : AnalyzeFiles(files)

Spec == Init /\ [][Next]_vars

\* ------------------------------------------------- query state machine

\* the function raw read again further down the file: the same tokens at
\* another span
Raw_again == [Lib_raw EXCEPT !.span = <<40, 0, 43, 1>>]

\* nodes a query can hold: nodes made by the constructors and nodes built by
\* hand around no subtree (AstNode's fields are public)
QueryNodes ==
    {from_function(Lib_raw), from_function(Raw_again), from_struct(Lib_Pool),
     AstNode("Function", "Other", None, Some("unsafe function raw")),
     AstNode("Function", "Other", None, Some("unsafe function helper"))}

\* AstQuery::from_nodes for two queries a and b
InitQuery ==
    /\ ctor = "AstQuery::from_nodes"
    /\ config = DefaultConfig
    /\ rules = <<>>
    /\ offered = <<>>
    /\ last = Last("new", "", <<>>, NoResult, NoStats, 0)
    /\ qa \in SeqsUpTo(QueryNodes, MaxQueryLen)
    /\ qb \in SeqsUpTo(QueryNodes, MaxQueryLen)
    /\ qr = QueryIdle
    /\ call = NoCall
    /\ ret = NoCall
    /\ builder = NoCall

QueryResult(op, result) ==
    /\ qr' = [op |-> op, result |-> result]
    /\ UNCHANGED <<ctor, config, rules, offered, last, qa, qb, call, ret, builder>>

Or == QueryResult("or", or(qa, qb))

And == QueryResult("and", and(qa, qb))

Not == QueryResult("not", not(qa))

NextQuery == Or \/ And \/ Not

SpecQuery == InitQuery /\ [][NextQuery]_vars

\* ----------------------------------------------------------- properties

\* the findings of the rules of rs whose check on the file returns Ok, in
\* registry order
OkFindings(rs, file_path) ==
    Flatten([i \in 1..Len(rs) |->
        IF check(rs[i], file_path).status = "Ok"
        THEN check(rs[i], file_path).findings ELSE <<>>])

SomeRule(rs, file_path, status) ==
    \E i \in 1..Len(rs) : check(rs[i], file_path).status = status

\* the findings analyze_files keeps of the files whose analysis succeeds, in
\* input order
OkFileFindings(cfg, rs, files) ==
    Flatten([i \in 1..Len(files) |->
        IF analyze_file(rs, files[i]).status = "Ok"
        THEN SelectSeq(analyze_file(rs, files[i]).findings,
                       LAMBDA f : f.severity \notin cfg.ignore_severities)
        ELSE <<>>])

\* C1: whenever some registered rule's check returns an error, execute_rules
\* returns Ok with the findings of every other registered rule, and nothing
\* from the failing rule.
C1_ErrRuleIsolated ==
    (last.op = "execute_rules" /\ SomeRule(rules, last.file, "Err"))
        => /\ last.status = "Ok"
           /\ last.findings = OkFindings(rules, last.file)

\* The part of C1 the code keeps: when every check returns (none panics), a
\* rule that returns an error is skipped and the other rules' findings are
\* returned.
ErrRuleIsolatedWhenChecksReturn ==
    (/\ last.op = "execute_rules"
     /\ SomeRule(rules, last.file, "Err")
     /\ ~SomeRule(rules, last.file, "panic"))
        => /\ last.status = "Ok"
           /\ last.findings = OkFindings(rules, last.file)

\* C2: a panic of a registered rule's query is caught: execute_rules returns Ok
\* with the findings of the other rules, and analyze_files goes on to the
\* remaining files.
C2_PanicCaught ==
    /\ (last.op = "execute_rules" /\ SomeRule(rules, last.file, "panic"))
            => /\ last.status = "Ok"
               /\ last.findings = OkFindings(rules, last.file)
    /\ (last.op = "analyze_files"
        /\ \E i \in 1..Len(last.files) :
                Readable(last.files[i]) /\ SomeRule(rules, last.files[i], "panic"))
            => last.status = "Ok"

\* a rule the configuration lets in
Accepted(cfg, rule) ==
    /\ rule.severity \notin cfg.ignore_severities
    /\ rule.id \notin cfg.ignore_rules
    /\ rule.rule_type \in cfg.include_rule_types

\* C3: the registry is exactly the offered rules that pass the three
\* configuration checks, in the order offered; with an empty include_rule_types
\* it is empty.
C3_RegistryIsAcceptedOffers ==
    /\ rules = SelectSeq(offered, LAMBDA rule : Accepted(config, rule))
    /\ config.include_rule_types = {} => rules = <<>>

\* an add_rule call was refused for the rule type alone while other offers of
\* the same engine were stored
C3_Witness ==
    /\ last.op = "add_rule"
    /\ Len(rules) >= 2
    /\ \E i \in 1..Len(offered) :
        /\ offered[i].severity \notin config.ignore_severities
        /\ offered[i].id \notin config.ignore_rules
        /\ offered[i].rule_type \notin config.include_rule_types

\* C4: when one file of the batch fails, analyze_files still returns Ok with
\* the findings of every other file in input order, and nothing from the failed
\* file.
C4_FailedFileSkipped ==
    (/\ last.op = "analyze_files"
     /\ \E i \in 1..Len(last.files) : analyze_file(rules, last.files[i]).status = "Err")
        => /\ last.status = "Ok"
           /\ last.findings = OkFileFindings(config, rules, last.files)

\* The part of C4 the code keeps: when no rule panics on a file of the batch,
\* a file that cannot be read is skipped and the other files' findings are
\* returned.
FailedFileSkippedWhenChecksReturn ==
    (/\ last.op = "analyze_files"
     /\ \E i \in 1..Len(last.files) : analyze_file(rules, last.files[i]).status = "Err"
     /\ \A i \in 1..Len(last.files) : analyze_file(rules, last.files[i]).status # "panic")
        => /\ last.status = "Ok"
           /\ last.findings = OkFileFindings(config, rules, last.files)

\* C5: no finding in the result of analyze_files has an ignored severity, even
\* when the rule that produced it declares a severity that is not ignored.
C5_NoIgnoredSeverityInResult ==
    last.op = "analyze_files"
        => \A i \in 1..Len(last.findings) :
                last.findings[i].severity \notin config.ignore_severities

\* analyze_files returned findings of a registered rule that also produced, on
\* a file of the batch, a finding of an ignored severity
C5_Witness ==
    /\ last.op = "analyze_files"
    /\ last.status = "Ok"
    /\ \E i \in 1..Len(rules), j \in 1..Len(last.files) :
        LET r == analyze_file(<<rules[i]>>, last.files[j])
        IN  /\ r.status = "Ok"
            /\ rules[i].severity \notin config.ignore_severities
            /\ \E k \in 1..Len(r.findings) :
                    r.findings[k].severity \in config.ignore_severities
            /\ \E k \in 1..Len(last.findings) :
                    last.findings[k].title = rules[i].title

\* the identities the built-in catalogue is to register
CatalogueIdentities ==
    {<<"solana-unsafe-code", "High">>, <<"missing-signer-check", "High">>,
     <<"duplicate-mutable-accounts", "Medium">>, <<"solana-division-by-zero", "Medium">>,
     <<"owner-check", "Medium">>, <<"solana-missing-error-handling", "Low">>,
     <<"anchor-instructions", "Low">>}

Permissive(cfg) ==
    /\ cfg.ignore_severities = {}
    /\ cfg.ignore_rules = {}
    /\ cfg.include_rule_types = {"Solana", "Anchor", "General"}

\* the rules a load_builtin_rules call put after the base rules already there
Loaded == SubSeq(rules, last.base + 1, Len(rules))

\* C6: under a configuration that ignores nothing and includes every rule type,
\* load_builtin_rules registers exactly seven rules, with seven different ids,
\* whose (id, severity) pairs are the catalogue's.
C6_SevenBuiltinRules ==
    (last.op = "load_builtin_rules" /\ Permissive(config))
        => /\ Len(Loaded) = 7
           /\ Cardinality({Loaded[i].id : i \in 1..Len(Loaded)}) = 7
           /\ {<<Loaded[i].id, Loaded[i].severity>> : i \in 1..Len(Loaded)}
                = CatalogueIdentities

C6_Witness ==
    /\ last.op = "load_builtin_rules"
    /\ Permissive(config)
    /\ Len(rules) >= 7

\* a finding of the built-in rule with this id: the rule's title and the
\* given severity
FindingFrom(findings, rule_id, sev) ==
    \E i \in 1..Len(findings), j \in 1..Len(BuiltinCatalogue) :
        /\ BuiltinCatalogue[j].id = rule_id
        /\ findings[i].title = BuiltinCatalogue[j].title
        /\ findings[i].severity = sev

FullCatalogue(rs) ==
    \A j \in 1..Len(BuiltinCatalogue) : \E i \in 1..Len(rs) : rs[i] = BuiltinCatalogue[j]

\* the run is over the one file of the end-to-end example
OnExampleFile ==
    \/ last.op = "execute_rules" /\ last.file = "e2e.rs"
    \/ last.op = "analyze_files" /\ last.files = <<"e2e.rs">>

\* C7: the full built-in catalogue run on the example file (struct Ctx with an
\* AccountInfo authority, fn handler dividing by y = 0 and returning nothing)
\* yields a High finding of missing-signer-check, a Low finding of
\* anchor-instructions, a Medium finding of solana-division-by-zero and a Low
\* finding of solana-missing-error-handling.
C7_ExampleFindings ==
    (OnExampleFile /\ FullCatalogue(rules))
        => /\ FindingFrom(last.findings, "missing-signer-check", "High")
           /\ FindingFrom(last.findings, "anchor-instructions", "Low")
           /\ FindingFrom(last.findings, "solana-division-by-zero", "Medium")
           /\ FindingFrom(last.findings, "solana-missing-error-handling", "Low")

C7_Witness ==
    /\ last.op = "execute_rules"
    /\ last.file = "e2e.rs"
    /\ rules = BuiltinCatalogue
    /\ last.status = "Ok"

\* C8: a.or(b) is a's results followed by b's results, nothing removed, so its
\* count is the sum of the two counts even when a and b hold the same nodes.
C8_OrConcatenates ==
    qr.op = "or"
        => /\ count(qr.result) = count(qa) + count(qb)
           /\ \A i \in 1..Len(qa) : qr.result[i] = qa[i]
           /\ \A j \in 1..Len(qb) : qr.result[Len(qa) + j] = qb[j]

\* or was applied to two queries that hold a common node
C8_Witness ==
    /\ qr.op = "or"
    /\ \E i \in 1..Len(qa), j \in 1..Len(qb) : qa[i] = qb[j]

\* the subsequence of a made of the nodes that equal some node of b
KeepEqual(a, b, eq(_, _)) ==
    SelectSeq(a, LAMBDA node : \E i \in 1..Len(b) : eq(b[i], node))

\* the referenced subtree of a node, compared as syn compares it: by its
\* tokens, not by where they stand
Subtree(node) ==
    CASE node.variant = "File" -> <<node.variant, StripSpans(node.data)>>
      [] node.variant \in {"Function", "ImplFunction", "Struct"} ->
            <<node.variant, StripSpans(<<node.data>>)>>
      [] OTHER -> <<node.variant>>

\* equality by node category and referenced subtree alone
CategoryAndSubtreeEq(n, m) ==
    /\ n.node_type = m.node_type
    /\ Subtree(n) = Subtree(m)

\* equality by node category, referenced subtree and name
CategorySubtreeAndNameEq(n, m) ==
    /\ n.node_type = m.node_type
    /\ Subtree(n) = Subtree(m)
    /\ n.name = m.name

C10_NotIsEmpty ==
    qr.op = "not"
        => /\ qr.result = <<>>
           /\ ~exists(qr.result)
           /\ count(qr.result) = 0

\* not was applied to a query with results
C10_Witness ==
    /\ qr.op = "not"
    /\ qa # <<>>

\* ------------------------------------------- span mapper state machine

\* the source texts handed to SpanExtractor::new: an empty file, a line
\* without line ending, two ended lines, a text with an empty line, and a
\* text with a \r\n ending and a line of three two-byte characters
SourceTexts ==
    {<<>>,
     <<"a", "b">>,
     <<"a", "b", LF, "c", "d", LF>>,
     <<"a", LF, LF, "b", "c", "d">>,
     <<"a", "b", CR, LF, "C3", "A9", "C3", "A9", "C3", "A9", LF, "c">>}

\* every span: line 0 is a span without position data; start and end are in
\* no order
Spans == (0..MaxLine) \X (0..MaxColumn) \X (0..MaxLine) \X (0..MaxColumn)

Options(S) == {None} \cup {Some(v) : v \in S}

Locations ==
    [file : {"lib.rs"}, line : 1..MaxLine, column : Options(0..MaxColumn),
     end_line : Options(1..MaxLine), end_column : Options(0..MaxColumn)]

SpanCalls ==
    [fn : {"extract_snippet"}, source_code : SourceTexts, span : Spans]
    \cup [fn : {"extract_context"}, source_code : SourceTexts, span : Spans,
          context_lines : 0..MaxContext]
    \cup [fn : {"extract_location"}, file_path : {"lib.rs"}, span : Spans]
    \cup [fn : {"format_location"}, location : Locations]

Idle(made_by) ==
    /\ ctor = made_by
    /\ config = DefaultConfig
    /\ rules = <<>>
    /\ offered = <<>>
    /\ last = Last("new", "", <<>>, NoResult, NoStats, 0)
    /\ qa = <<>>
    /\ qb = <<>>
    /\ qr = QueryIdle

InitSpan ==
    /\ Idle("SpanExtractor::new")
    /\ call \in SpanCalls
    /\ ret = NoCall
    /\ builder = NoCall

Returns(op, result) ==
    /\ ret' = [op |-> op, result |-> result]
    /\ UNCHANGED <<ctor, config, rules, offered, last, qa, qb, qr, call, builder>>

ExtractSnippet ==
    /\ call.fn = "extract_snippet"
    /\ Returns("extract_snippet", extract_snippet(call.source_code, call.span))

ExtractContext ==
    /\ call.fn = "extract_context"
    /\ Returns("extract_context",
               extract_context(call.source_code, call.span, call.context_lines))

ExtractLocation ==
    /\ call.fn = "extract_location"
    /\ Returns("extract_location", extract_location(call.file_path, call.span))

FormatLocation ==
    /\ call.fn = "format_location"
    /\ Returns("format_location", format_location(call.location))

NextSpan == ExtractSnippet \/ ExtractContext \/ ExtractLocation \/ FormatLocation

SpecSpan == InitSpan /\ [][NextSpan]_vars

\* ------------------------------------------------ span mapper properties

SnippetCall == ret.op = "extract_snippet"

\* the lines of the source of the call
CallLines == lines(call.source_code)

\* the span of the call lies on lines of the source, start line first
InFile == call.span[1] >= 1 /\ call.span[1] <= call.span[3] /\ call.span[3] <= Len(CallLines)

\* the number of lines of a text: one more than its line feeds
LineCount(text) == 1 + Cardinality({i \in 1..Len(text) : text[i] = LF})

\* C13: for a span on one existing line of length len, extract_snippet returns
\* the slice of the line from min(start_col, len) to min(end_col, len).
C13_SingleLineClamped ==
    (SnippetCall /\ InFile /\ call.span[1] = call.span[3] /\ call.span[2] <= call.span[4])
        => LET line == CallLines[call.span[1]]
           IN  ret.result = Returned(SubSeq(line, Min(call.span[2], Len(line)) + 1,
                                            Min(call.span[4], Len(line))))

\* The part of C13 the code keeps: when both columns are inside the line and
\* on character boundaries, the snippet is the substring between them.
SingleLineInsideIsSubstring ==
    (/\ SnippetCall /\ InFile /\ call.span[1] = call.span[3]
     /\ call.span[2] <= call.span[4]
     /\ call.span[4] <= Len(CallLines[call.span[1]])
     /\ call.span[2] < Len(CallLines[call.span[1]])
     /\ is_char_boundary(CallLines[call.span[1]], call.span[2])
     /\ is_char_boundary(CallLines[call.span[1]], call.span[4]))
        => ret.result = Returned(SubSeq(CallLines[call.span[1]], call.span[2] + 1, call.span[4]))

\* C14: for a span with start line < end line inside the file, extract_snippet
\* returns the rest of the first line from start_col (nothing when start_col
\* is at or past its end), every interior line in full and the prefix of the
\* last line up to end_col (all of it when end_col exceeds its length), joined
\* by line feeds.
C14_MultiLineParts ==
    (SnippetCall /\ InFile /\ call.span[1] < call.span[3])
        => LET first_line == CallLines[call.span[1]]
               last_line == CallLines[call.span[3]]
               rest == SubSeq(first_line, call.span[2] + 1, Len(first_line))
               interior == Flatten([i \in 1..(call.span[3] - call.span[1] - 1) |->
                                        <<LF>> \o CallLines[call.span[1] + i]])
               prefix == SubSeq(last_line, 1, Min(call.span[4], Len(last_line)))
           IN  ret.result = Returned(rest \o interior \o <<LF>> \o prefix)

\* C15: for every span covering N lines of the file and every pair of columns,
\* the snippet extract_snippet returns has exactly N lines.
C15_SnippetLineCount ==
    (SnippetCall /\ InFile)
        => /\ ret.result.status = "Ok"
           /\ LineCount(ret.result.value) = call.span[3] - call.span[1] + 1

\* The part of C15 the code keeps: a snippet that is returned for a span
\* inside the file has as many lines as the span.
ReturnedSnippetLineCount ==
    (SnippetCall /\ InFile /\ ret.result.status = "Ok")
        => LineCount(ret.result.value) = call.span[3] - call.span[1] + 1

\* C16: for every source text and every span, extract_snippet returns a string
\* and never panics, and it returns the out-of-bounds sentinel when a line
\* index of a positioned span exceeds the number of lines of the source.
C16_SnippetNeverPanics ==
    SnippetCall
        => /\ ret.result.status = "Ok"
           /\ (/\ call.span[1] > 0 /\ call.span[3] > 0
               /\ (call.span[1] > Len(CallLines) \/ call.span[3] > Len(CallLines)))
                => ret.result.value = S_snippet_out_of_bounds

\* The part of C16 the code keeps: a line index of a positioned span past the
\* last line gives the out-of-bounds sentinel.
PastLastLineIsSentinel ==
    (/\ SnippetCall
     /\ call.span[1] > 0 /\ call.span[3] > 0
     /\ (call.span[1] > Len(CallLines) \/ call.span[3] > Len(CallLines)))
        => ret.result = Returned(S_snippet_out_of_bounds)

\* C17: the Location of a span with position data has a 1-indexed line and
\* 1-indexed columns (a start at the first character of a line is column 1);
\* column, end_line and end_column are absent only for a span that reports
\* line 0, whose location is line 1 without columns.
C17_LocationOneIndexed ==
    ret.op = "extract_location"
        => IF call.span[1] > 0
           THEN /\ ret.result.line = call.span[1]
                /\ ret.result.column = Some(call.span[2] + 1)
                /\ ret.result.end_line # None
                /\ ret.result.end_column # None
           ELSE /\ ret.result.line = 1
                /\ ret.result.column = None
                /\ ret.result.end_line = None
                /\ ret.result.end_column = None

\* C18: for a span over lines s..e of a file of L lines and c context lines,
\* extract_context lists exactly the lines max(1, s-c) .. min(L, e+c) in order,
\* the lines s..e marked and the others not.
C18_ContextLines ==
    (ret.op = "extract_context" /\ InFile)
        => LET from == Max(1, call.span[1] - call.context_lines)
               to == Min(Len(CallLines), call.span[3] + call.context_lines)
           IN  ret.result = Returned([i \in 1..(to - from + 1) |->
                    LET n == from + i - 1
                    IN  ContextRow(IF call.span[1] <= n /\ n <= call.span[3]
                                   THEN "->" ELSE "  ", n, CallLines[n])])

\* C19: format_location of a Location with a column gives
\* file:line:col-end_line:end_col exactly when the end line differs from the
\* line, file:line:col-end_col exactly when the span stays on one line and the
\* end column differs from the column, and file:line:col otherwise.
C19_FormatLocationForms ==
    (ret.op = "format_location" /\ call.location.column # None)
        => LET loc == call.location
               crosses == loc.end_line # None /\ loc.end_line[1] # loc.line
                          /\ loc.end_column # None
               widens == ~crosses /\ loc.end_column # None /\ loc.end_column # loc.column
                         /\ (loc.end_line = None \/ loc.end_line = Some(loc.line))
           IN  IF crosses
               THEN ret.result = <<loc.file, ":", loc.line, ":", loc.column[1], "-",
                                   loc.end_line[1], ":", loc.end_column[1]>>
               ELSE IF widens
               THEN ret.result = <<loc.file, ":", loc.line, ":", loc.column[1], "-",
                                   loc.end_column[1]>>
               ELSE ret.result = <<loc.file, ":", loc.line, ":", loc.column[1]>>

\* ------------------------------------------- functions() state machine

MaxDepth == 4
MaxWidth == 6

\* mod scan;  a module declared without inline content
Fn_external == ItemMod(S_scan, FALSE, <<>>, <<1, 0, 1, 9>>)

\* impl Pool { const total: u64 = 0; pub fn run(amount: u64) { .. } }
Fn_impl == ItemImpl(<<ImplItemConst(S_total, <<2, 4, 2, 24>>), Lib_run>>, <<1, 0, 6, 1>>)

\* mod vault { fn helper(..) {..}  mod inner { impl Pool {..}  mod scan;  unsafe fn raw(..) {..} } }
Fn_deep ==
    ItemMod(S_vault, TRUE,
            <<Lib_helper,
              ItemMod(S_inner, TRUE, <<Fn_impl, Fn_external, Lib_raw>>, <<5, 4, 20, 5>>)>>,
            <<1, 0, 21, 1>>)

FnFiles ==
    {<<>>, <<Lib_helper>>, <<Lib_Pool, Lib_raw>>, <<Fn_external, Lib_helper>>,
     <<Lib_inner>>, <<Fn_impl>>, <<Fn_deep>>, <<Lib_helper, Fn_deep, Lib_helper>>,
     <<Fn_impl, Lib_inner, Fn_external>>, E2E_File, Lib_File}

\* nodes a query can hold before functions(): File nodes and nodes of other
\* kinds
FnNodes ==
    {from_file(file) : file \in FnFiles}
    \cup {from_function(Lib_helper), from_impl_function(Lib_run), from_struct(Lib_Pool)}

\* AstQuery::from_nodes
InitFunctions ==
    /\ ctor = "AstQuery::from_nodes"
    /\ config = DefaultConfig
    /\ rules = <<>>
    /\ offered = <<>>
    /\ last = Last("new", "", <<>>, NoResult, NoStats, 0)
    /\ qa \in SeqsUpTo(FnNodes, MaxQueryLen)
    /\ qb = <<>>
    /\ qr = QueryIdle
    /\ call = NoCall
    /\ ret = NoCall
    /\ builder = NoCall

\* query.functions()
Functions ==
    /\ qr = QueryIdle
    /\ QueryResult("functions", functions(qa))

\* query.functions().functions()
FunctionsOfFunctions ==
    /\ qr.op = "functions"
    /\ QueryResult("functions.functions", functions(qr.result))

NextFunctions == Functions \/ FunctionsOfFunctions

SpecFunctions == InitFunctions /\ [][NextFunctions]_vars

\* ------------------------------------------------ functions() properties

\* index paths into the items of a file: <<2, 1>> is the first item of the
\* second item
ItemPaths == UNION {[1..depth -> 1..MaxWidth] : depth \in 1..MaxDepth}

\* whether the path leads to a function item through inline modules only, or
\* through inline modules and then an impl block to a function of the block
RECURSIVE LeadsToFunction(_, _)
LeadsToFunction(items, path) ==
    /\ path[1] <= Len(items)
    /\ LET item == items[path[1]]
       IN  IF Len(path) = 1 THEN item.kind = "fn"
           ELSE \/ /\ item.kind = "mod"
                   /\ item.inline
                   /\ LeadsToFunction(item.items, Tail(path))
                \/ /\ item.kind = "impl"
                   /\ Len(path) = 2
                   /\ path[2] <= Len(item.items)
                   /\ item.items[path[2]].kind = "impl_fn"

RECURSIVE ItemAt(_, _)
ItemAt(items, path) ==
    IF Len(path) = 1 THEN items[path[1]] ELSE ItemAt(items[path[1]].items, Tail(path))

\* the node of the function a path leads to
FunctionNodeAt(items, path) ==
    LET func == ItemAt(items, path)
    IN  IF func.kind = "fn" THEN from_function(func) ELSE from_impl_function(func)

\* p is before q in the file: at the first index where they differ p has
\* the smaller one
Before(p, q) ==
    \E k \in 1..Len(p) :
        /\ k <= Len(q)
        /\ p[k] < q[k]
        /\ \A j \in 1..(k - 1) : p[j] = q[j]

\* the functions of a file in the order of their positions in the file
InFileOrder(items) ==
    LET found == {path \in ItemPaths : LeadsToFunction(items, path)}
    IN  [k \in 1..Cardinality(found) |->
            FunctionNodeAt(items,
                CHOOSE path \in found :
                    Cardinality({other \in found : Before(other, path)}) = k - 1)]

FunctionsInFileOrder == [file \in FnFiles |-> InFileOrder(file)]

\* C11: functions() returns, for each File node of the query in turn, the
\* functions at top level, in inline modules at any depth and in the impl
\* blocks at those levels, each position once, in the order of the file;
\* modules without inline content and nodes that are not File nodes add
\* nothing
C11_FunctionsCollected ==
    /\ qr.op = "functions" =>
          qr.result = Flatten([i \in 1..Len(qa) |->
                          IF qa[i].variant = "File"
                          THEN FunctionsInFileOrder[qa[i].data] ELSE <<>>])
    /\ qr.op = "functions.functions" => qr.result = <<>>

\* a query of the file with nested modules and of a node that is not a File
\* node: helper, run of the impl block two modules deep, raw, helper
C11_Witness ==
    /\ qr.op = "functions"
    /\ qa = <<from_function(Lib_helper), from_file(<<Lib_helper, Fn_deep, Lib_helper>>)>>
    /\ qr.result = <<from_function(Lib_helper), from_function(Lib_helper),
                     from_impl_function(Lib_run), from_function(Lib_raw),
                     from_function(Lib_helper)>>

\* ------------------------------------------- findings state machine

\* the spans of the nodes of a query: inside a line, over two lines, with
\* the end column before the start column, without position data, and past
\* the end of the shorter texts
NodeSpans ==
    {<<1, 0, 1, 2>>, <<1, 0, 2, 1>>, <<1, 1, 1, 0>>, <<0, 0, 0, 0>>, <<2, 0, 3, 1>>,
     <<3, 0, 3, 1>>}

\* nodes of every kind: functions and a struct at each span, a File node of
\* one function, and nodes built around no subtree
FindingNodes ==
    {from_function([Lib_helper EXCEPT !.span = span]) : span \in NodeSpans}
    \cup {from_impl_function([Lib_run EXCEPT !.span = <<2, 0, 2, 2>>]),
          from_struct([Lib_Pool EXCEPT !.span = <<1, 0, 3, 1>>]),
          from_file(<<[Lib_helper EXCEPT !.span = <<1, 0, 2, 2>>]>>),
          AstNode("Function", "Other", None, Some("unsafe function helper")),
          AstNode("Other", "Other", None, None)}

FindingCalls ==
    [fn : {"to_findings_with_span_extractor"},
     q : SeqsUpTo(FindingNodes, MaxQueryLen),
     severity : Severities,
     file_path : {"lib.rs"},
     source_code : SourceTexts]

InitFindings ==
    /\ Idle("AstQuery::from_nodes")
    /\ call \in FindingCalls
    /\ ret = NoCall
    /\ builder = NoCall

\* query.to_findings_with_span_extractor(severity, title, description,
\* file_path, &SpanExtractor::new(source_code, file_path))
ToFindingsWithSpanExtractor ==
    /\ ret = NoCall
    /\ Returns("to_findings_with_span_extractor",
               to_findings_with_span_extractor(call.q, call.severity, "Unsafe Code Usage",
                   "Using unsafe code", call.file_path,
                   SpanExtractor_new(call.source_code, call.file_path)))

\* the findings, formatted one after the other for a report
FormatFindings ==
    /\ ret.op = "to_findings_with_span_extractor"
    /\ ret.result.status = "Ok"
    /\ Returns("format_location",
               [i \in 1..Len(ret.result.value) |->
                   format_location(ret.result.value[i].location)])

NextFindings == ToFindingsWithSpanExtractor \/ FormatFindings

SpecFindings == InitFindings /\ [][NextFindings]_vars

\* ---------------------------------------------------- findings properties

FindingsCall == ret.op = "to_findings_with_span_extractor"

\* the span of the subtree a node refers to
SpanOf(node) == IF node.variant = "File" THEN file_span(node.data) ELSE node.data.span

\* the finding the claim describes for node i of the query
IsFindingOfNode(finding, node) ==
    /\ finding.severity = call.severity
    /\ finding.name = node.name
    /\ IF node.variant = "Other"
       THEN /\ finding.location = [file |-> call.file_path, line |-> 1, column |-> None,
                                   end_line |-> None, end_column |-> None]
            /\ finding.code_snippet = Some(S_ellipsis)
       ELSE /\ finding.location = span_to_location(call.file_path, SpanOf(node))
            /\ finding.code_snippet =
                   Some(span_to_snippet(call.source_code, SpanOf(node)).value)

\* C12: to_findings_with_span_extractor returns one finding per node of the
\* query, in the order of the query, each with the given severity; a node
\* that refers to no subtree (NodeData::Other) has the fallback location and
\* the placeholder snippet, every other node the location and the snippet
\* of its span
C12_OneFindingPerNode ==
    FindingsCall =>
        /\ ret.result.status = "Ok"
        /\ Len(ret.result.value) = Len(call.q)
        /\ \A i \in 1..Len(call.q) : IsFindingOfNode(ret.result.value[i], call.q[i])

\* the same for the queries where the snippet of every node is returned
OneFindingPerNodeWhenSnippetsReturn ==
    /\ FindingsCall
    /\ \A i \in 1..Len(call.q) :
           \/ call.q[i].variant = "Other"
           \/ span_to_snippet(call.source_code, SpanOf(call.q[i])).status = "Ok"
    => /\ ret.result.status = "Ok"
       /\ Len(ret.result.value) = Len(call.q)
       /\ \A i \in 1..Len(call.q) : IsFindingOfNode(ret.result.value[i], call.q[i])

\* --------------------------------------------- rule builder state machine

BuilderTitles == {"Unsafe Code Usage", "Unsafe code"}
BuilderDescriptions == {"Using unsafe code can lead to vulnerabilities", "Avoid unsafe"}
BuilderSeverities == {"Medium", "High"}

\* RuleBuilder::new(); rule is the rule once build() has consumed the builder
InitBuilder ==
    /\ Idle("RuleBuilder::new")
    /\ call = NoCall
    /\ ret = NoCall
    /\ builder = [b |-> RuleBuilder_new, rule |-> None]

\* one call of the fluent interface on the builder
Chain(b) ==
    /\ builder.rule = None
    /\ builder' = [builder EXCEPT !.b = b]
    /\ UNCHANGED <<ctor, config, rules, offered, last, qa, qb, qr, call, ret>>

SetId == Chain(id(builder.b, "solana-unsafe-code"))

SetTitle == \E v \in BuilderTitles : Chain(title(builder.b, v))

SetDescription == \E v \in BuilderDescriptions : Chain(description(builder.b, v))

SetSeverity == \E v \in BuilderSeverities : Chain(severity(builder.b, v))

SetRuleType == Chain(rule_type(builder.b, "General"))

SetEnabled == Chain(enabled(builder.b, FALSE))

DslQuery == Chain(dsl_query(builder.b, "unsafe_code"))

\* builder.build(), which expects the query to be set
Build ==
    /\ builder.rule = None
    /\ builder.b.query_builder # None
    /\ builder' = [builder EXCEPT !.rule = Some(build(builder.b))]
    /\ UNCHANGED <<ctor, config, rules, offered, last, qa, qb, qr, call, ret>>

\* rule.check(ast, file_path) on the built rule
Check(file_path) ==
    /\ builder.rule # None
    /\ call' = [fn |-> "check", file_path |-> file_path]
    /\ ret' = [op |-> "check", result |-> check(builder.rule[1], file_path)]
    /\ UNCHANGED <<ctor, config, rules, offered, last, qa, qb, qr, builder>>

NextBuilder ==
    \/ SetId
    \/ SetTitle
    \/ SetDescription
    \/ SetSeverity
    \/ SetRuleType
    \/ SetEnabled
    \/ DslQuery
    \/ Build
    \/ \E file_path \in ParsedPaths : Check(file_path)

SpecBuilder == InitBuilder /\ [][NextBuilder]_vars

\* ------------------------------------------------ rule builder properties

Checked == ret.op = "check" /\ builder.rule # None

\* every finding of the check has the severity, title and description of
\* the rule
FindingsCarryRuleMetadata ==
    LET rule == builder.rule[1]
    IN  /\ ret.result.status = "Ok"
        /\ \A i \in 1..Len(ret.result.findings) :
               /\ ret.result.findings[i].severity = rule.severity
               /\ ret.result.findings[i].title = rule.title
               /\ ret.result.findings[i].description = rule.description

\* C20: for every sequence of builder calls with dsl_query that ends with
\* build(), the findings of the rule's check have the severity of the rule
\* and a description made of its title and description, wherever the setters
\* were called
C20_FindingsCarryRuleMetadata == Checked => FindingsCarryRuleMetadata

\* the same for the rules whose severity, title and description were not set
\* again after dsl_query, on the files where the query returns
FindingsCarryMetadataSetBeforeQuery ==
    /\ Checked
    /\ ret.result.status # "panic"
    /\ builder.b.query_builder[1].severity = builder.b.severity
    /\ builder.b.query_builder[1].title = builder.b.title
    /\ builder.b.query_builder[1].description = builder.b.description
    => FindingsCarryRuleMetadata

\* a check of a rule built with the setters before dsl_query that returns
\* findings
MetadataSetBeforeQueryReached ==
    /\ Checked
    /\ builder.b.title = "Unsafe Code Usage"
    /\ builder.b.severity = "High"
    /\ builder.b.query_builder[1].severity = "High"
    /\ builder.b.query_builder[1].title = "Unsafe Code Usage"
    /\ builder.b.query_builder[1].description = builder.b.description
    /\ ret.result.status = "Ok"
    /\ Len(ret.result.findings) > 0

\* ------------------------------------------------ enabled flag properties

\* what the query of the checked rule produces on the checked file
QueryOutcome == query_builder(builder.rule[1].query_builder, call.file_path)

\* the check of an enabled rule ended as its query did, with the findings of
\* the query; the check of a disabled rule returned Ok with no finding
EnabledGatesFindings ==
    IF builder.rule[1].enabled
    THEN IF QueryOutcome.status = "panic" THEN ret.result = Panic
         ELSE ret.result = Ok(QueryOutcome.value)
    ELSE ret.result = Ok(<<>>)

\* C21: a rule built with enabled(false) returns Ok with an empty finding
\* list from every check, whatever the AST; a rule built with enabled(true),
\* the default, returns exactly the findings its query produced
C21_EnabledGatesFindings == Checked => EnabledGatesFindings

\* the same for the checks whose query returns
EnabledGatesFindingsWhenQueryReturns ==
    Checked /\ QueryOutcome.status # "panic" => EnabledGatesFindings

\* a disabled rule was checked on a file where its query selects a node and
\* returned nothing
DisabledRuleWithMatchesReached ==
    /\ Checked
    /\ ~builder.rule[1].enabled
    /\ QueryOutcome.status # "panic"
    /\ Len(QueryOutcome.value) > 0
    /\ ret.result = Ok(<<>>)

\* --------------------------------------- accounts struct state machine

MaxFields == 3

S_seed_list == <<"[", "b", "\"", "p", "d", "a", "\"", "]">>
S_Pair == <<"P", "a", "i", "r">>

\* the name of the field at each position of a struct
FieldNames == <<S_from, S_to, S_vault, S_authority>>

\* the pairs of fields an inequality can name
NamePairs == {p \in (1..MaxFields) \X (1..MaxFields) : p[1] < p[2]}

\* constraint = a.key() != b.key()
KeysDiffer(a, b) ==
    <<S_constraint, S_eq, a, S_dot, S_key, S_parens, S_ne, b, S_dot, S_key, S_parens>>

\* the token lists of #[account(...)]: mut, a program address with seeds and
\* bump, and an inequality of two fields' keys with and without mut
AccountTokens ==
    {<<S_mut>>, <<S_mut, S_comma, S_seeds, S_eq, S_seed_list, S_comma, S_bump>>}
    \cup {KeysDiffer(FieldNames[p[1]], FieldNames[p[2]]) : p \in NamePairs}
    \cup {<<S_mut, S_comma>> \o KeysDiffer(FieldNames[p[1]], FieldNames[p[2]]) : p \in NamePairs}

\* the attributes of one field: none or one #[account(...)]
FieldAttrs == {<<>>} \cup {<<Attr(S_account, tokens)>> : tokens \in AccountTokens}

\* #[derive(Accounts)] pub struct Pair<'info> { ... } with token accounts
AccountsStruct(attrs) ==
    ItemStruct(S_Pair, <<Attr(S_derive, <<S_Accounts>>)>>,
               [i \in 1..Len(attrs) |->
                   Field(FieldNames[i], attrs[i], Ty(S_Account, <<S_info, S_TokenAccount>>))],
               <<1, 0, 1 + Len(attrs), 1>>)

DuplicateStructs == {AccountsStruct(attrs) : attrs \in SeqsUpTo(FieldAttrs, MaxFields)}

MaxSignerFields == 2

S_init == <<"i", "n", "i", "t">>

\* the account types of a field
AccountTypes ==
    {Ty(S_AccountInfo, <<S_info>>), Ty(S_UncheckedAccount, <<S_info>>),
     Ty(S_SystemAccount, <<S_info>>), Ty(S_Signer, <<S_info>>),
     Ty(S_Account, <<S_info, S_TokenAccount>>),
     Ty(S_AccountLoader, <<S_info, S_TokenAccount>>)}

\* no attribute, #[account(signer)], #[account(mut)], and #[account(init)],
\* which the Anchor parser rejects for its missing payer
SignerAttrs ==
    {<<>>, <<Attr(S_account, <<S_signer>>)>>, <<Attr(S_account, <<S_mut>>)>>,
     <<Attr(S_account, <<S_init>>)>>}

\* #[derive(Accounts)] pub struct Pair<'info> { ... } with the given fields
SignerStruct(fields) ==
    ItemStruct(S_Pair, <<Attr(S_derive, <<S_Accounts>>)>>,
               [i \in 1..Len(fields) |-> Field(FieldNames[i], fields[i][1], fields[i][2])],
               <<1, 0, 1 + Len(fields), 1>>)

SignerStructs ==
    {SignerStruct(fields) : fields \in SeqsUpTo(SignerAttrs \X AccountTypes, MaxSignerFields)}

AccountsCalls ==
    [fn : {"duplicate_mutable_accounts"}, struct : DuplicateStructs]
    \cup [fn : {"missing_signer_check"}, struct : SignerStructs]

\* a file of one struct, parsed
InitAccounts ==
    /\ Idle("AstQuery::new")
    /\ call \in AccountsCalls
    /\ ret = NoCall
    /\ builder = NoCall

\* the query of the duplicate mutable accounts rule on the file
DuplicateMutableAccounts ==
    /\ call.fn = "duplicate_mutable_accounts"
    /\ ret = NoCall
    /\ Returns("has_duplicate_mutable_accounts",
               RunDsl("duplicate_mutable_accounts", <<call.struct>>))

\* the query of the missing signer check rule on the file
MissingSignerCheck ==
    /\ call.fn = "missing_signer_check"
    /\ ret = NoCall
    /\ Returns("has_missing_signer_checks", RunDsl("missing_signer_check", <<call.struct>>))

\* the struct the query kept, counted
CountKept ==
    /\ ret.op \in {"has_duplicate_mutable_accounts", "has_missing_signer_checks"}
    /\ Returns("count", count(ret.result))

NextAccounts == DuplicateMutableAccounts \/ MissingSignerCheck \/ CountKept

SpecAccounts == InitAccounts /\ [][NextAccounts]_vars

\* ------------------------------------------ accounts struct properties

DuplicatesCall == ret.op = "has_duplicate_mutable_accounts"

Kept == ret.result = <<from_struct(call.struct)>>
Dropped == ret.result = <<>>

\* the tokens of the field's #[account(...)] attribute, none without one
TokensOf(field) == IF field.attrs = <<>> THEN <<>> ELSE field.attrs[1].tokens

MarkedMutable(field) == S_mut \in Range(TokensOf(field))

\* the field's own attribute has constraint, seeds, bump or an inequality
OwnConstraint(field) ==
    Range(TokensOf(field)) \cap {S_constraint, S_seeds, S_bump, S_ne} # {}

MutableFields == {i \in 1..Len(call.struct.fields) : MarkedMutable(call.struct.fields[i])}

\* the fields whose attribute is constraint = a.key() != b.key() for the
\* fields at positions a and b
Differ(a, b) ==
    {i \in 1..Len(call.struct.fields) :
        TokensOf(call.struct.fields[i]) \in
            {KeysDiffer(FieldNames[a], FieldNames[b]),
             <<S_mut, S_comma>> \o KeysDiffer(FieldNames[a], FieldNames[b])}}

\* C22: a struct with at least two fields marked mutable and no constraint,
\* seeds, bump or inequality on any field is kept by
\* has_duplicate_mutable_accounts; with constraint = a.key() != b.key() added
\* to one field, a and b being its two mutable fields, it is dropped
C22_InequalityDropsStruct ==
    DuplicatesCall =>
        /\ (/\ Cardinality(MutableFields) >= 2
            /\ \A i \in 1..Len(call.struct.fields) : ~OwnConstraint(call.struct.fields[i]))
           => Kept
        /\ \A p \in NamePairs :
              (/\ MutableFields = {p[1], p[2]}
               /\ \E i \in Differ(p[1], p[2]) :
                     \A j \in 1..Len(call.struct.fields) :
                         j # i => ~OwnConstraint(call.struct.fields[j]))
              => Dropped

\* the inequality sits on a field other than the second mutable field, which
\* is protected by being named
C22_Witness ==
    /\ DuplicatesCall
    /\ MutableFields = {1, 2}
    /\ Differ(1, 2) = {1}
    /\ ~OwnConstraint(call.struct.fields[2])
    /\ Dropped

\* two mutable fields without any constraint, kept
TwoPlainMutableFieldsKept ==
    /\ DuplicatesCall
    /\ MutableFields = {1, 2}
    /\ \A i \in 1..Len(call.struct.fields) : ~OwnConstraint(call.struct.fields[i])
    /\ Kept

\* an inequality constraint of another field names the field at position i
NamedBySibling(i) ==
    \E p \in NamePairs : i \in {p[1], p[2]} /\ Differ(p[1], p[2]) \ {i} # {}

\* the mutable fields with no constraint of their own that no sibling's
\* inequality names
UnconstrainedMutableFields ==
    {i \in MutableFields : ~OwnConstraint(call.struct.fields[i]) /\ ~NamedBySibling(i)}

\* C23: has_duplicate_mutable_accounts keeps a struct if and only if at least
\* two of its mutable fields are unconstrained; a struct with exactly one
\* unconstrained mutable field is not kept
C23_KeptIffTwoUnconstrained ==
    DuplicatesCall =>
        /\ Kept <=> Cardinality(UnconstrainedMutableFields) >= 2
        /\ Kept \/ Dropped

\* what the count of the filter amounts to: at least two mutable fields, one
\* of them unconstrained
KeptIffTwoMutableOneUnconstrained ==
    DuplicatesCall =>
        /\ Kept <=> Cardinality(MutableFields) >= 2 /\ UnconstrainedMutableFields # {}
        /\ Kept \/ Dropped

\* a mutable field with seeds and bump next to one plain mutable field, kept
OneUnconstrainedKept ==
    /\ DuplicatesCall
    /\ Len(call.struct.fields) = 2
    /\ MutableFields = {1, 2}
    /\ S_seeds \in Range(TokensOf(call.struct.fields[1]))
    /\ UnconstrainedMutableFields = {2}
    /\ Kept

\* ------------------------------------------- missing signer properties

SignerCall == ret.op = "has_missing_signer_checks"

\* the field is typed AccountInfo, UncheckedAccount or SystemAccount and its
\* attribute has no signer
NeedsSigner(field) ==
    /\ field.ty.head \in {S_AccountInfo, S_UncheckedAccount, S_SystemAccount}
    /\ S_signer \notin Range(TokensOf(field))

\* C24: for every struct deriving Accounts, has_missing_signer_checks is true
\* if and only if a field is typed AccountInfo, UncheckedAccount or
\* SystemAccount and carries no signer constraint, whether the Anchor accounts
\* parse succeeds or the fallback is used; Signer, #[account(signer)],
\* AccountLoader fields and empty structs are never flagged
C24_MissingSignerIffUncheckedField ==
    SignerCall =>
        /\ Kept <=> \E i \in 1..Len(call.struct.fields) : NeedsSigner(call.struct.fields[i])
        /\ Kept \/ Dropped

\* the same for the structs the Anchor accounts parser accepts
MissingSignerIffUncheckedFieldWhenParsed ==
    SignerCall /\ convert_to_anchor_struct_optimized(call.struct) =>
        /\ Kept <=> \E i \in 1..Len(call.struct.fields) : NeedsSigner(call.struct.fields[i])
        /\ Kept \/ Dropped

\* with the fallback, the fields of the types the claim names are flagged
\* and Signer and AccountLoader fields are not
FallbackFlagsUncheckedFields ==
    SignerCall /\ ~convert_to_anchor_struct_optimized(call.struct) =>
        /\ (\E i \in 1..Len(call.struct.fields) : NeedsSigner(call.struct.fields[i])) => Kept
        /\ (\A i \in 1..Len(call.struct.fields) :
               call.struct.fields[i].ty.head \in {S_Signer, S_AccountLoader}) => Dropped

\* a struct the parser rejects whose fields need no signer, flagged
FallbackFlagsAccountField ==
    /\ SignerCall
    /\ ~convert_to_anchor_struct_optimized(call.struct)
    /\ \A i \in 1..Len(call.struct.fields) : ~NeedsSigner(call.struct.fields[i])
    /\ Kept

\* -- unsafe_code/filters.rs

\* has_unsafe_in_block: the walk of syn::visit over the block, where
\* visit_expr_unsafe sets found_unsafe
RECURSIVE has_unsafe_in_block(_), has_unsafe_in_expr(_)
has_unsafe_in_expr(expr) ==
    \/ expr.k = "unsafe"
    \/ \E i \in 1..Len(expr.args) : has_unsafe_in_expr(expr.args[i])
    \/ has_unsafe_in_block(expr.stmts)

has_unsafe_in_block(stmts) ==
    \E i \in 1..Len(stmts) : stmts[i].init # None /\ has_unsafe_in_expr(stmts[i].init[1])

\* UnsafeCodeFilters::uses_unsafe, the trait method of the same name as the
\* inherent one
UnsafeCodeFilters_uses_unsafe(q) ==
    SelectSeq(q, LAMBDA node :
        /\ node.variant \in {"Function", "ImplFunction"}
        /\ has_unsafe_in_block(node.data.block))

\* --------------------------------------- function body state machine

\* scan(amount): a call of an unsafe function
ScanCall == Call(PathExpr(S_scan), <<PathExpr(S_amount)>>)

\* function bodies without unsafe, with an unsafe block as a statement, in a
\* let, inside a block and after another statement
UnsafeBodies ==
    {<<>>,
     <<StmtExpr(ScanCall)>>,
     <<StmtExpr(UnsafeBlock(<<StmtExpr(ScanCall)>>))>>,
     <<LetIdent(S_x, UnsafeBlock(<<StmtExpr(ScanCall)>>))>>,
     <<StmtExpr(BlockExpr(<<StmtExpr(UnsafeBlock(<<>>))>>))>>,
     <<LetIdent(S_x, LitInt(S_d1)), StmtExpr(UnsafeBlock(<<StmtExpr(ScanCall)>>))>>,
     <<LetIdent(S_x, ScanCall), StmtExpr(ScanCall)>>}

\* free functions and associated functions, safe and unsafe
UnsafeItems ==
    {ItemFn(S_helper, "inherited", unsafety, <<Ty(S_u64, <<>>)>>, None, block,
            <<1, 0, 1 + Len(block), 1>>) :
        unsafety \in BOOLEAN, block \in UnsafeBodies}
    \cup {ItemImpl(<<ImplItemFn(S_run, "pub", unsafety, <<Ty(S_u64, <<>>)>>, None, block,
                                <<2, 4, 2 + Len(block), 5>>)>>,
                   <<1, 0, 3 + Len(block), 1>>) :
        unsafety \in BOOLEAN, block \in UnsafeBodies}

MaxStmts == 3

\* what a division divides by: a bound variable, a parameter, literals, a
\* call, a field, a method call, a parenthesised difference and a cast
Divisors ==
    {PathExpr(S_z), PathExpr(S_y), LitInt(S_d0), LitInt(S_d5), LitFloat(S_d0p0),
     Call(PathExpr(S_scan), <<PathExpr(S_y)>>), FieldExpr(PathExpr(S_ctx), S_amount),
     MethodCall(PathExpr(S_parts), S_len),
     Paren(Binary("Sub", PathExpr(S_y), LitInt(S_d1))), Cast(PathExpr(S_y))}

\* let z = 5; let z = 0; let z = y; let z: u64 = 5; { let z = 5; } and
\* let _ = x / divisor
DivisionStmts ==
    {LetIdent(S_z, LitInt(S_d5)), LetIdent(S_z, LitInt(S_d0)), LetIdent(S_z, PathExpr(S_y)),
     LetTyped(S_z, LitInt(S_d5)), StmtExpr(BlockExpr(<<LetIdent(S_z, LitInt(S_d5))>>))}
    \cup {LetWild(Binary("Div", PathExpr(S_x), divisor)) : divisor \in Divisors}

\* pub fn handler(x: u64, y: u64) { ... }
DivisionItems ==
    {ItemFn(S_handler, "pub", FALSE, <<Ty(S_u64, <<>>), Ty(S_u64, <<>>)>>, None, block,
            <<1, 0, 2 + Len(block), 1>>) :
        block \in SeqsUpTo(DivisionStmts, MaxStmts)}

BodyCalls ==
    [fn : {"unsafe_code", "UnsafeCodeFilters"}, item : UnsafeItems]
    \cup [fn : {"division_by_zero"}, item : DivisionItems]

\* a file of one function or one impl block, parsed
InitBodies ==
    /\ Idle("AstQuery::new")
    /\ call \in BodyCalls
    /\ ret = NoCall
    /\ builder = NoCall

\* the query of the unsafe code rule: functions().uses_unsafe()
UsesUnsafe ==
    /\ call.fn = "unsafe_code"
    /\ ret = NoCall
    /\ Returns("uses_unsafe", RunDsl("unsafe_code", <<call.item>>))

\* UnsafeCodeFilters::uses_unsafe(functions()), the trait method called by
\* its path
TraitUsesUnsafe ==
    /\ call.fn = "UnsafeCodeFilters"
    /\ ret = NoCall
    /\ Returns("UnsafeCodeFilters::uses_unsafe",
               UnsafeCodeFilters_uses_unsafe(functions(new(<<call.item>>))))

\* the query of the division by zero rule: functions().has_unsafe_divisions()
HasUnsafeDivisions ==
    /\ call.fn = "division_by_zero"
    /\ ret = NoCall
    /\ Returns("has_unsafe_divisions", RunDsl("division_by_zero", <<call.item>>))

\* the functions the query kept, counted
CountFunctions ==
    /\ ret.op \in {"uses_unsafe", "UnsafeCodeFilters::uses_unsafe", "has_unsafe_divisions"}
    /\ Returns("count", count(ret.result))

NextBodies == UsesUnsafe \/ TraitUsesUnsafe \/ HasUnsafeDivisions \/ CountFunctions

SpecBodies == InitBodies /\ [][NextBodies]_vars

\* ------------------------------------------ function body properties

\* the function of the file and its node
TheFunction == IF call.item.kind = "impl" THEN call.item.items[1] ELSE call.item
TheNode ==
    IF call.item.kind = "impl" THEN from_impl_function(TheFunction)
    ELSE from_function(TheFunction)

FunctionKept == ret.result = <<TheNode>>
FunctionDropped == ret.result = <<>>

\* every expression of a block, at any depth
RECURSIVE ExprsOfBlock(_), ExprsOfExpr(_)
ExprsOfExpr(expr) ==
    {expr} \cup UNION {ExprsOfExpr(expr.args[i]) : i \in 1..Len(expr.args)}
           \cup ExprsOfBlock(expr.stmts)
ExprsOfBlock(stmts) ==
    UNION {ExprsOfExpr(stmts[i].init[1]) : i \in {j \in 1..Len(stmts) : stmts[j].init # None}}

MarkedUnsafe == TheFunction.unsafety
HasUnsafeBlock == \E expr \in ExprsOfBlock(TheFunction.block) : expr.k = "unsafe"

\* C25: uses_unsafe keeps a function or associated function if and only if
\* its signature is marked unsafe or its body contains an unsafe block; a
\* function that only calls an unsafe function is dropped
C25_UnsafeSignatureOrBlock ==
    ret.op \in {"uses_unsafe", "UnsafeCodeFilters::uses_unsafe"} =>
        /\ FunctionKept <=> (MarkedUnsafe \/ HasUnsafeBlock)
        /\ FunctionKept \/ FunctionDropped

\* the method the rule's query resolves to looks at the signature only
InherentKeepsUnsafeSignature ==
    ret.op = "uses_unsafe" =>
        /\ FunctionKept <=> MarkedUnsafe
        /\ FunctionKept \/ FunctionDropped

\* the trait method looks at the body only
TraitKeepsUnsafeBlock ==
    ret.op = "UnsafeCodeFilters::uses_unsafe" =>
        /\ FunctionKept <=> HasUnsafeBlock
        /\ FunctionKept \/ FunctionDropped

\* a function that is not marked unsafe and has an unsafe block, dropped by
\* the rule's query
UnsafeBlockDropped ==
    /\ ret.op = "uses_unsafe"
    /\ ~MarkedUnsafe
    /\ HasUnsafeBlock
    /\ FunctionDropped

\* --------------------------------------------- division properties

DivisionsCall == ret.op = "has_unsafe_divisions"

Body == TheFunction.block

\* statement i is let _ = x / divisor
IsDivision(i) ==
    /\ Body[i].k = "local"
    /\ Body[i].pat = "wild"
    /\ Body[i].init[1].k = "binary"
    /\ Body[i].init[1].op = "Div"

Divisor(i) == Body[i].init[1].args[2]

\* statement i binds v in the scope of the function body
IsLet(i, v) ==
    /\ Body[i].k = "local"
    /\ Body[i].pat \in {"ident", "typed"}
    /\ Body[i].ident = v

NonZeroLiteral(expr) ==
    \/ expr.k = "lit_int" /\ expr.digits # S_d0
    \/ expr.k = "lit_float" /\ expr.digits \notin {S_d0, S_d0p0}

\* the number of let statements of the function, those of inner blocks
\* included
RECURSIVE LetsOfBlock(_)
LetsOfBlock(stmts) ==
    IF stmts = <<>> THEN 0
    ELSE (IF Head(stmts).k = "local" /\ Head(stmts).pat # "wild" THEN 1
          ELSE IF Head(stmts).k = "expr" THEN LetsOfBlock(Head(stmts).init[1].stmts)
          ELSE 0)
         + LetsOfBlock(Tail(stmts))

BoundAtMostOnce == LetsOfBlock(Body) <= 1

\* v is bound to a non-zero literal by a statement before statement i
BoundEarlier(i, v) ==
    \E j \in 1..(i - 1) : IsLet(j, v) /\ NonZeroLiteral(Body[j].init[1])

\* the divisor is a non-zero literal or a variable bound earlier to one
SafeDivisor(i) ==
    \/ NonZeroLiteral(Divisor(i))
    \/ Divisor(i).k = "path" /\ BoundEarlier(i, Divisor(i).ident)

\* C26: for every function in which each local variable is bound at most
\* once, has_unsafe_divisions keeps the function if and only if its body has
\* a division whose divisor is neither a non-zero literal nor a variable
\* bound earlier to a non-zero literal; a divisor of any other form makes the
\* division unsafe
C26_UnsafeDivisionIffUnsafeDivisor ==
    DivisionsCall /\ BoundAtMostOnce =>
        /\ FunctionKept <=> \E i \in 1..Len(Body) : IsDivision(i) /\ ~SafeDivisor(i)
        /\ FunctionKept \/ FunctionDropped

\* the same for the functions whose divisors are literals, variables, calls
\* and field accesses and whose lets bind a plain identifier in the body
\* itself
PlainBody ==
    \A i \in 1..Len(Body) :
        /\ Body[i].k = "local"
        /\ Body[i].pat # "typed"
        /\ IsDivision(i) => Divisor(i).k \in {"lit_int", "lit_float", "path", "call", "field"}

UnsafeDivisionIffUnsafeDivisorWhenPlain ==
    DivisionsCall /\ BoundAtMostOnce /\ PlainBody =>
        /\ FunctionKept <=> \E i \in 1..Len(Body) : IsDivision(i) /\ ~SafeDivisor(i)
        /\ FunctionKept \/ FunctionDropped

\* let z = 5; let _ = x / z, dropped
BoundDivisorDropped ==
    /\ DivisionsCall
    /\ Len(Body) = 2
    /\ IsLet(1, S_z)
    /\ IsDivision(2)
    /\ Divisor(2) = PathExpr(S_z)
    /\ SafeDivisor(2)
    /\ FunctionDropped

\* a division by a method call alone in the body, dropped
MethodCallDivisorDropped ==
    /\ DivisionsCall
    /\ Len(Body) = 1
    /\ IsDivision(1)
    /\ Divisor(1).k = "method_call"
    /\ FunctionDropped

\* the binding of v in force at statement i is a non-zero literal
InForceNonZero(i, v) ==
    \E j \in 1..(i - 1) :
        /\ IsLet(j, v)
        /\ NonZeroLiteral(Body[j].init[1])
        /\ \A k \in (j + 1)..(i - 1) : ~IsLet(k, v)

\* C27: a division by a variable is treated as safe only when the binding of
\* the variable in force at the division, the latest let before it in the
\* same scope, is a non-zero literal: a division before the binding, a
\* variable bound again to 0 or to a non-literal, and a variable of the same
\* name bound in an inner block leave the division unsafe
C27_BindingInForceDecides ==
    DivisionsCall =>
        ((\E i \in 1..Len(Body) :
             /\ IsDivision(i)
             /\ Divisor(i).k = "path"
             /\ ~InForceNonZero(i, Divisor(i).ident))
         => FunctionKept)

\* statement j, before the division, is let v = non-zero literal with a plain
\* identifier, in the body or in an inner block
Tracks(j, v) ==
    \/ /\ IsLet(j, v)
       /\ Body[j].pat = "ident"
       /\ NonZeroLiteral(Body[j].init[1])
    \/ /\ Body[j].k = "expr"
       /\ Body[j].init[1].k = "block"
       /\ LetIdent(v, LitInt(S_d5)) \in Range(Body[j].init[1].stmts)

\* a division by a variable that no earlier statement bound to a non-zero
\* literal is unsafe
DivisionBeforeBindingUnsafe ==
    DivisionsCall =>
        ((\E i \in 1..Len(Body) :
             /\ IsDivision(i)
             /\ Divisor(i).k = "path"
             /\ \A j \in 1..(i - 1) : ~Tracks(j, Divisor(i).ident))
         => FunctionKept)

\* let z = 5; let z = 0; let _ = x / z, dropped
ReboundToZeroDropped ==
    /\ DivisionsCall
    /\ Body = <<LetIdent(S_z, LitInt(S_d5)), LetIdent(S_z, LitInt(S_d0)),
                LetWild(Binary("Div", PathExpr(S_x), PathExpr(S_z)))>>
    /\ FunctionDropped

\* a division that precedes the binding of its divisor, kept
DivisionBeforeBindingKept ==
    /\ DivisionsCall
    /\ Body = <<LetWild(Binary("Div", PathExpr(S_x), PathExpr(S_z))),
                LetIdent(S_z, LitInt(S_d5))>>
    /\ FunctionKept

\* --------------------------------------------- rule engine order properties

\* the finding lists of the rules of the registry whose check on the file
\* returned Ok, one after the other in registry order
ConcatenatedFindings(rs, file_path) ==
    Flatten([i \in 1..Len(rs) |->
        IF CheckResults[file_path][rs[i]].status = "Ok"
        THEN CheckResults[file_path][rs[i]].findings ELSE <<>>])

NoCheckPanics(rs, file_path) ==
    \A i \in 1..Len(rs) : CheckResults[file_path][rs[i]].status # "panic"

\* C28: execute_rules returns the concatenation, in registration order, of
\* the finding lists of the rules of the registry whose check succeeded, each
\* in the order the rule produced it, with nothing merged, reordered or
\* deduplicated; the registry and the configuration are the same after the
\* call as before it
C28_ExecuteRulesConcatenates ==
    /\ [](last.op = "execute_rules" =>
             /\ NoCheckPanics(rules, last.file) => last.status = "Ok"
             /\ last.status = "Ok" => last.findings = ConcatenatedFindings(rules, last.file))
    /\ [][last'.op = "execute_rules" /\ last' # last => rules' = rules /\ config' = config]_vars

\* a rule accepted twice by add_rule, with its findings returned twice
C28_Witness ==
    /\ last.op = "execute_rules"
    /\ last.status = "Ok"
    /\ Len(rules) = 2
    /\ rules[1] = rules[2]
    /\ Len(CheckResults[last.file][rules[1]].findings) = 2
    /\ Len(last.findings) = 4
    /\ last.findings[1] = last.findings[3]

\* ------------------------------------------------- statistics properties

\* stats.findings_by_severity[s], an absent key meaning 0
CountOf(stats, s) ==
    IF s \in DOMAIN stats.findings_by_severity THEN stats.findings_by_severity[s] ELSE 0

\* the number of findings of severity s in a finding list
NumOfSeverity(findings, s) ==
    Cardinality({i \in 1..Len(findings) : findings[i].severity = s})

RECURSIVE SumOver(_, _)
SumOver(stats, S) ==
    IF S = {} THEN 0
    ELSE LET s == CHOOSE x \in S : TRUE
         IN  CountOf(stats, s) + SumOver(stats, S \ {s})

\* C29: after analyze_files over any list of files, some of which may fail,
\* and any ignore_severities, the count of every severity in
\* stats.findings_by_severity equals the number of findings of that severity
\* in the returned list, the counts sum to findings.len(), and
\* stats.files_analyzed is the number of input files
C29_StatsMatchFindings ==
    last.op = "analyze_files" /\ last.status = "Ok" =>
        /\ \A s \in Severities : CountOf(last.stats, s) = NumOfSeverity(last.findings, s)
        /\ DOMAIN last.stats.findings_by_severity \subseteq Severities
        /\ SumOver(last.stats, Severities) = Len(last.findings)
        /\ last.stats.files_analyzed = Len(last.files)

\* a batch with a file that fails and findings dropped by ignore_severities,
\* with a severity counted more than once
C29_Witness ==
    /\ last.op = "analyze_files"
    /\ last.status = "Ok"
    /\ "gone.rs" \in Range(last.files)
    /\ config.ignore_severities # {}
    /\ Len(last.findings) < Len(OkFileFindings(DefaultConfig, rules, last.files))
    /\ \E s \in Severities : CountOf(last.stats, s) >= 2
    /\ last.stats.files_analyzed = 3

\* ------------------------------------------------ constructor properties

\* the analyzer or engine as constructed: no rule was offered to it since
AsConstructed(made_by) == ctor = made_by /\ offered = <<>>

\* C30: built-in rules are registered only by Analyzer::with_options; an
\* Analyzer from Analyzer::new() has an empty rule registry, rule_count 0,
\* and analyze_files on it returns an empty finding list for every input
C30_NewAnalyzerHasNoRules ==
    /\ AsConstructed("Analyzer::new") =>
          /\ Len(rules) = 0
          /\ last.op = "analyze_files" =>
                /\ last.status = "Ok"
                /\ last.findings = <<>>
                /\ last.stats.findings_by_severity = EmptyMap
    /\ AsConstructed("RuleEngine::new") => Len(rules) = 0
    /\ Len(rules) > 0 => offered # <<>>
    /\ ctor = "Analyzer::with_options" =>
          /\ Len(offered) >= Len(BuiltinCatalogue)
          /\ SubSeq(offered, 1, Len(BuiltinCatalogue)) = BuiltinCatalogue

\* analyze_files of a new analyzer on files where an analyzer with the default
\* configuration and the built-in rules reports findings
C30_Witness ==
    /\ AsConstructed("Analyzer::new")
    /\ last.op = "analyze_files"
    /\ last.files = <<"lib.rs", "e2e.rs">>
    /\ last.findings = <<>>
    /\ Len(analyze_files(DefaultConfig, load_builtin_rules(DefaultConfig, <<>>),
                         last.files).findings) > 0

====
